---- MODULE Spec2Model ----
(***************************************************************************)
(* A model of the backtesting engine of grok-backtester:                   *)
(*   engine/backtest.py        run_backtest, run_parallel_backtests        *)
(*   metrics/performance.py    PerformanceCalculator.calculate_metrics     *)
(*   optimization/grid_search.py  GridSearchOptimizer                      *)
(*   strategies/base.py, strategies/momentum.py                            *)
(*                                                                         *)
(* Floating point numbers are modelled as exact rationals <<n, d>> in      *)
(* lowest terms with d > 0, extended with the three IEEE specials          *)
(* NaN = <<0,0>>, +inf = <<1,0>> and -inf = <<-1,0>>.  A pandas Series is  *)
(* a sequence of such values; a missing value is NaN, as in pandas.        *)
(***************************************************************************)
EXTENDS Integers, Sequences, FiniteSets, TLC

(***************************************************************************)
(* Bounds of the model.                                                    *)
(***************************************************************************)
\* longest price table (rows)
MaxLen == 3

(***************************************************************************)
(* Extended rational arithmetic (Python float / numpy float64 semantics,   *)
(* without rounding).                                                      *)
(***************************************************************************)
Abs(x) == IF x < 0 THEN -x ELSE x

RECURSIVE GCD(_, _)
GCD(a, b) == IF b = 0 THEN a ELSE GCD(b, a % b)

NaN == <<0, 0>>
PosInf == <<1, 0>>
NegInf == <<-1, 0>>

Sign(n) == IF n > 0 THEN 1 ELSE IF n < 0 THEN -1 ELSE 0

\* the float n/d; x/0 is +-inf and 0/0 is NaN (numpy division)
Rat(n, d) ==
    IF d = 0 THEN <<Sign(n), 0>>
    ELSE LET g == GCD(Abs(n), Abs(d))
             s == IF d < 0 THEN -1 ELSE 1
         IN <<(s * n) \div g, (s * d) \div g>>

R(n) == <<n, 1>>
Zero == R(0)
One == R(1)

IsNaN(x) == x = NaN
IsInf(x) == x[2] = 0 /\ x[1] # 0
IsFinite(x) == x[2] # 0

RNeg(x) == <<-x[1], x[2]>>

RAdd(x, y) ==
    IF IsNaN(x) \/ IsNaN(y) THEN NaN
    ELSE IF IsInf(x) /\ IsInf(y) THEN (IF x = y THEN x ELSE NaN)
    ELSE IF IsInf(x) THEN x
    ELSE IF IsInf(y) THEN y
    ELSE Rat(x[1] * y[2] + y[1] * x[2], x[2] * y[2])

RSub(x, y) == RAdd(x, RNeg(y))

RMul(x, y) ==
    IF IsNaN(x) \/ IsNaN(y) THEN NaN
    ELSE IF IsInf(x) \/ IsInf(y) THEN <<Sign(x[1]) * Sign(y[1]), 0>>
    ELSE Rat(x[1] * y[1], x[2] * y[2])

RDiv(x, y) ==
    IF IsNaN(x) \/ IsNaN(y) THEN NaN
    ELSE IF IsInf(x) /\ IsInf(y) THEN NaN
    ELSE IF IsInf(x) THEN <<Sign(x[1]) * (IF y[1] < 0 THEN -1 ELSE 1), 0>>
    ELSE IF IsInf(y) THEN Zero
    ELSE Rat(x[1] * y[2], x[2] * y[1])

RAbs(x) == <<Abs(x[1]), x[2]>>

\* x < y and x > y as IEEE comparisons: any comparison with NaN is false
RLt(x, y) ==
    IF IsNaN(x) \/ IsNaN(y) THEN FALSE
    ELSE IF IsInf(x) \/ IsInf(y)
         THEN (IF IsInf(x) THEN x[1] ELSE 0) < (IF IsInf(y) THEN y[1] ELSE 0)
              \/ (IsFinite(x) /\ y = PosInf) \/ (x = NegInf /\ IsFinite(y))
    ELSE x[1] * y[2] < y[1] * x[2]

RGt(x, y) == RLt(y, x)

\* x == y as an IEEE comparison: NaN is not equal to itself
REq(x, y) == ~IsNaN(x) /\ ~IsNaN(y) /\ x = y

RNe(x, y) == ~REq(x, y)

(***************************************************************************)
(* pandas Series operations used by the engine.                            *)
(***************************************************************************)
\* Series.shift(1): every value moves one row down, the first row is missing
Shift(s) == [i \in DOMAIN s |-> IF i = 1 THEN NaN ELSE s[i - 1]]

\* Series.fillna(v)
FillNa(s, v) == [i \in DOMAIN s |-> IF IsNaN(s[i]) THEN v ELSE s[i]]

\* Series.diff(): s[i] - s[i-1], the first row is missing
Diff(s) == [i \in DOMAIN s |-> IF i = 1 THEN NaN ELSE RSub(s[i], s[i - 1])]

\* Series.pct_change(periods=k): s[i]/s[i-k] - 1, the first k rows missing
PctChange(s, k) ==
    [i \in DOMAIN s |-> IF i <= k THEN NaN ELSE RSub(RDiv(s[i], s[i - k]), One)]

\* Series.cumprod(); a NaN row stays NaN and is skipped
CumProd(s) ==
    LET f[i \in 0..Len(s)] ==
            IF i = 0 THEN One
            ELSE IF IsNaN(s[i]) THEN f[i - 1]
            ELSE RMul(f[i - 1], s[i])
    IN [i \in DOMAIN s |-> IF IsNaN(s[i]) THEN NaN ELSE f[i]]

\* Series.cummax(); a NaN row stays NaN and is skipped
CumMax(s) ==
    LET f[i \in 0..Len(s)] ==
            IF i = 0 THEN NaN
            ELSE IF IsNaN(s[i]) THEN f[i - 1]
            ELSE IF IsNaN(f[i - 1]) \/ RGt(s[i], f[i - 1]) THEN s[i]
            ELSE f[i - 1]
    IN [i \in DOMAIN s |-> IF IsNaN(s[i]) THEN NaN ELSE f[i]]

\* element-wise operations of two aligned Series, and of a scalar and a Series
SMul(a, b) == [i \in DOMAIN a |-> RMul(a[i], b[i])]
SSub(a, b) == [i \in DOMAIN a |-> RSub(a[i], b[i])]
SDiv(a, b) == [i \in DOMAIN a |-> RDiv(a[i], b[i])]
SAbs(a) == [i \in DOMAIN a |-> RAbs(a[i])]
SScale(k, a) == [i \in DOMAIN a |-> RMul(k, a[i])]
SPlus(k, a) == [i \in DOMAIN a |-> RAdd(k, a[i])]

\* an int8 signal Series as floats
AsFloat(s) == [i \in DOMAIN s |-> R(s[i])]

\* Series.sum() (skips NaN; 0 for an empty Series)
RECURSIVE SSum(_)
SSum(s) ==
    IF Len(s) = 0 THEN Zero
    ELSE IF IsNaN(s[Len(s)]) THEN SSum(SubSeq(s, 1, Len(s) - 1))
    ELSE RAdd(SSum(SubSeq(s, 1, Len(s) - 1)), s[Len(s)])

\* Series.dropna()
NotNaN(x) == ~IsNaN(x)
DropNa(s) == SelectSeq(s, NotNaN)

\* Series.min() (skips NaN; NaN when nothing is left)
SMin(s) ==
    LET v == DropNa(s)
        f[i \in 0..Len(v)] ==
            IF i = 0 THEN NaN
            ELSE IF i = 1 \/ RLt(v[i], f[i - 1]) THEN v[i] ELSE f[i - 1]
    IN f[Len(v)]

\* Series.mean() (skips NaN; NaN when nothing is left)
SMean(s) == LET v == DropNa(s) IN RDiv(SSum(v), R(Len(v)))

(***************************************************************************)
(* Exceptions.  An exception is the chain of its own [type, msg] and those *)
(* of its causes (raise ... from ...), outermost first.                    *)
(***************************************************************************)
ExcArg(type, msg, arg) == <<[type |-> type, msg |-> msg, arg |-> arg]>>
Exc(type, msg) == ExcArg(type, msg, "")
ExcFrom(type, msg, cause) == Exc(type, msg) \o cause

\* the classes an except clause naming `cls` catches
Subclasses(cls) ==
    IF cls = "Exception"
    THEN {"Exception", "BacktestError", "EngineError", "StrategyError",
          "MetricsError", "ValueError", "KeyError", "TypeError",
          "RuntimeError", "TimeoutError", "CancelledError"}
    ELSE IF cls = "BacktestError"
    THEN {"BacktestError", "EngineError", "StrategyError", "MetricsError"}
    ELSE {cls}

IsInstance(exc, cls) == exc[1].type \in Subclasses(cls)

Return(v) == [ok |-> TRUE, val |-> v]
Raise(exc) == [ok |-> FALSE, exc |-> exc]

(***************************************************************************)
(* DataFrames: n rows and a mapping from column name to Series.            *)
(***************************************************************************)
DataFrame(n, cols) == [n |-> n, cols |-> cols]
Columns(df) == DOMAIN df.cols
NoCols == [c \in {} |-> <<>>]

(***************************************************************************)
(* Strategies (strategies/base.py, strategies/momentum.py).  A strategy    *)
(* object is [type, params]; "stub" stands for any implementation of the   *)
(* signal contract: its params hold the Series it returns, or that it      *)
(* raises.                                                                 *)
(***************************************************************************)
STRATEGY_REGISTRY ==
    {"moving_average", "rsi", "macd", "momentum", "mean_reversion",
     "bollinger_bands", "commodity_channel_index", "parabolic_sar",
     "stochastic", "enhanced_rsi"}

MomentumDefaults ==
    [lookback |-> 20, buy_threshold |-> Rat(1, 20),
     sell_threshold |-> Rat(-1, 20), price_column |-> "Adj Close"]

\* mutant: a validation that accepts every parameter dictionary
MomentumValidate_accept_all(params) == Return(TRUE)

\* MomentumStrategy._validate_params
MomentumValidate(params) ==
    IF params.lookback <= 0
    THEN Raise(Exc("ValueError", "Lookback period must be positive."))
    ELSE IF ~RLt(params.sell_threshold, params.buy_threshold)
    THEN Raise(Exc("ValueError", "Sell threshold must be less than buy threshold."))
    ELSE Return(TRUE)

\* BaseStrategy.__init__ as run by MomentumStrategy(params)
NewStrategy(type, params) ==
    LET effective_params == params @@ MomentumDefaults
        valid == MomentumValidate(effective_params)
    IN IF valid.ok THEN Return([type |-> type, params |-> effective_params])
       ELSE valid

\* the logger.debug call that ends generate_signals: its arguments
\* data.index[0] and data.index[-1] raise IndexError on a table without rows
Logged(data, signals) ==
    IF data.n = 0
    THEN Raise(Exc("IndexError", "index 0 is out of bounds for axis 0 with size 0"))
    ELSE Return(signals)

\* Series(0, index=data.index, dtype="int8")
Neutral(data) == [i \in 1..data.n |-> 0]

\* the price column used: params["price_column"], else 'Close', else ValueError
ActualColumn(strategy, data) ==
    IF strategy.params.price_column \in Columns(data)
    THEN Return(strategy.params.price_column)
    ELSE IF "Close" \in Columns(data) THEN Return("Close")
    ELSE Raise(ExcArg("ValueError", "DataFrame must contain price column or 'Close' column.",
                      strategy.params.price_column))

\* BaseStrategy.generate_signals: the common check of required_columns
BaseCheck(required_columns, data) ==
    IF required_columns \subseteq Columns(data) THEN Return(Neutral(data))
    ELSE Raise(ExcArg("ValueError", "DataFrame missing required columns",
                      required_columns \ Columns(data)))

\* x <= y and x >= y as IEEE comparisons
RLe(x, y) == RLt(x, y) \/ REq(x, y)
RGe(x, y) == RLe(y, x)

\* Series.rolling(window).mean(): missing until `window` rows are there
RollingMean(s, window) ==
    [i \in DOMAIN s |->
        IF i < window THEN NaN
        ELSE RDiv(SSum(SubSeq(s, i - window + 1, i)), R(window))]

\* lines 94-103 of moving_average.py: 1 where the short average crosses above
\* the long one, -1 where it crosses below, 0 elsewhere
Crossovers(short_sma, long_sma) ==
    [i \in DOMAIN short_sma |->
        IF /\ RLt(short_sma[i], long_sma[i])
           /\ RGe(Shift(short_sma)[i], Shift(long_sma)[i]) THEN -1
        ELSE IF /\ RGt(short_sma[i], long_sma[i])
                /\ RLe(Shift(short_sma)[i], Shift(long_sma)[i]) THEN 1
        ELSE 0]

MovingAverageWith(strategy, data, prices) ==
    Logged(data, Crossovers(RollingMean(prices, strategy.params.short_window),
                            RollingMean(prices, strategy.params.long_window)))

MovingAverageOn(strategy, data, actual_column) ==
    IF ~actual_column.ok THEN actual_column
    ELSE MovingAverageWith(strategy, data, data.cols[actual_column.val])

\* MovingAverageStrategy.generate_signals
MovingAverageSignals(strategy, data) ==
    MovingAverageOn(strategy, data, ActualColumn(strategy, data))

\* the signals computed from a TA-Lib indicator (RSI, STOCH): the library is
\* not part of the package, its outcome is the series strategy.indicator
IndicatorSignals(strategy, data) == Logged(data, strategy.indicator)

RsiOn(strategy, data, actual_column) ==
    IF ~actual_column.ok THEN actual_column
    ELSE IF data.n < strategy.params.period + 1 THEN Return(Neutral(data))
    ELSE IndicatorSignals(strategy, data)

\* RSIStrategy.generate_signals
RsiSignals(strategy, data) == RsiOn(strategy, data, ActualColumn(strategy, data))

Max3(a, b, c) ==
    IF a >= b /\ a >= c THEN a ELSE IF b >= c THEN b ELSE c

StochasticOn(strategy, data, actual_column) ==
    IF ~actual_column.ok THEN actual_column
    ELSE IF data.n < Max3(strategy.params.fastk_period, strategy.params.slowk_period,
                          strategy.params.slowd_period) + 1
    THEN Return(Neutral(data))
    ELSE IndicatorSignals(strategy, data)

StochasticChecked(strategy, data, base) ==
    IF ~base.ok THEN base
    ELSE StochasticOn(strategy, data, ActualColumn(strategy, data))

\* StochasticStrategy.generate_signals
StochasticSignals(strategy, data) ==
    StochasticChecked(strategy, data, BaseCheck({"High", "Low"}, data))

\* MomentumStrategy.generate_signals
MomentumSignals(strategy, data) ==
    LET want == strategy.params.price_column
        actual_column == IF want \in Columns(data) THEN want ELSE "Close"
    IN IF actual_column \notin Columns(data)
       THEN Raise(Exc("ValueError", "DataFrame must contain price column or 'Close' column."))
       ELSE LET momentum == PctChange(data.cols[actual_column], strategy.params.lookback)
            IN Logged(data,
                      [i \in 1..data.n |->
                        IF RLt(momentum[i], strategy.params.sell_threshold) THEN -1
                        ELSE IF RGt(momentum[i], strategy.params.buy_threshold) THEN 1
                        ELSE 0])

\* strategy.generate_signals(data)
generate_signals(strategy, data) ==
    IF strategy.type = "momentum" THEN MomentumSignals(strategy, data)
    ELSE IF strategy.type = "moving_average" THEN MovingAverageSignals(strategy, data)
    ELSE IF strategy.type = "rsi" THEN RsiSignals(strategy, data)
    ELSE IF strategy.type = "stochastic" THEN StochasticSignals(strategy, data)
    ELSE IF strategy.params.raises
    THEN Raise(Exc(strategy.params.error, "signal generation failed"))
    ELSE Return(strategy.params.signals)

(***************************************************************************)
(* PerformanceCalculator (metrics/performance.py).  The metrics that need  *)
(* a square root or a fractional power (cagr, sharpe_ratio, sortino_ratio, *)
(* calmar_ratio, annualized_volatility) have no exact rational value and   *)
(* are not part of the modelled map.                                       *)
(***************************************************************************)
PerformanceCalculator(risk_free_rate) ==
    [risk_free_rate |-> risk_free_rate, has_benchmark |-> FALSE]

\* the benchmark_returns argument: Python's None, or a Series
NoSeries == [given |-> FALSE]
Given(series) == [given |-> TRUE, series |-> series]

\* PerformanceCalculator.__init__ with a benchmark_returns argument: the
\* logger.debug call of lines 41-47 evaluates bool(self.benchmark_returns), and
\* the truth value of a pandas Series, empty or not, raises ValueError
PerformanceCalculatorWith(risk_free_rate, benchmark_returns) ==
    IF benchmark_returns.given
    THEN Raise(Exc("ValueError", "The truth value of a Series is ambiguous."))
    ELSE Return(PerformanceCalculator(risk_free_rate))

\* mutant: the default profit factor is 0
_default_metrics_zero_profit_factor ==
    [total_return |-> Zero, cagr |-> Zero, sharpe_ratio |-> Zero,
     sortino_ratio |-> Zero, max_drawdown |-> Zero, calmar_ratio |-> Zero,
     annualized_volatility |-> Zero, beta |-> NaN, alpha |-> NaN,
     num_trades |-> Zero, win_rate |-> Zero, avg_return_per_trade |-> Zero,
     profit_factor |-> Zero]

\* PerformanceCalculator._default_metrics: all thirteen metrics
_default_metrics ==
    [total_return |-> Zero, cagr |-> Zero, sharpe_ratio |-> Zero,
     sortino_ratio |-> Zero, max_drawdown |-> Zero, calmar_ratio |-> Zero,
     annualized_volatility |-> Zero, beta |-> NaN, alpha |-> NaN,
     num_trades |-> Zero, win_rate |-> Zero, avg_return_per_trade |-> Zero,
     profit_factor |-> NaN]

NonZero(x) == RNe(x, Zero)
Positive(x) == RGt(x, Zero)
Negative(x) == RLt(x, Zero)

\* max_drawdown of calculate_metrics: min of (total - cummax(total)) / cummax(total)
MaxDrawdown(total) ==
    LET peak == CumMax(total)
        drawdown == SDiv(SSub(total, peak), peak)
    IN IF Len(drawdown) # 0 THEN SMin(drawdown) ELSE Zero

\* total_return = total.iloc[-1] / total.iloc[0] - 1 if total.iloc[0] != 0 else 0.0
TotalReturn(total) ==
    IF RNe(total[1], Zero) THEN RSub(RDiv(total[Len(total)], total[1]), One) ELSE Zero

\* mutant: without losses the profit factor is 0
ProfitFactor_zero_without_loss(gross_profit, gross_loss) ==
    IF RNe(gross_loss, Zero) THEN RDiv(gross_profit, gross_loss) ELSE Zero

\* gross_profit / gross_loss if gross_loss != 0 else inf
ProfitFactor(gross_profit, gross_loss) ==
    IF RNe(gross_loss, Zero) THEN RDiv(gross_profit, gross_loss) ELSE PosInf

\* the metrics map of a portfolio with the equity `total` and the non-zero
\* period returns `trades`
Metrics(total, trades) ==
    Return(
        [total_return |-> TotalReturn(total),
         max_drawdown |-> MaxDrawdown(total),
         beta |-> NaN,
         alpha |-> NaN,
         num_trades |-> R(Len(trades)),
         win_rate |-> IF Len(trades) = 0 THEN Zero
                      ELSE Rat(Len(SelectSeq(trades, Positive)), Len(trades)),
         avg_return_per_trade |-> IF Len(trades) = 0 THEN Zero ELSE SMean(trades),
         profit_factor |-> IF Len(trades) = 0 THEN NaN
                           ELSE ProfitFactor(SSum(SelectSeq(trades, Positive)),
                                             RAbs(SSum(SelectSeq(trades, Negative))))])

\* the default of the trading_days_per_year argument
trading_days_per_year == 252

\* Series.var() and numpy.cov(x, y)[0, 1], both with ddof = 1: missing when
\* fewer than two values are there
Deviations(s) == SPlus(RNeg(SMean(s)), s)
SVar(s) ==
    IF Len(s) < 2 THEN NaN
    ELSE RDiv(SSum(SMul(Deviations(s), Deviations(s))), R(Len(s) - 1))
Cov(x, y) ==
    IF Len(x) < 2 THEN NaN
    ELSE RDiv(SSum(SMul(Deviations(x), Deviations(y))), R(Len(x) - 1))

(* Values that are not rational are kept exact as longer tuples of integers: *)
(* <<n, d, 2>> is sqrt(n/d), <<a, b, n, d>> is (a/b) / sqrt(n/d),            *)
(* <<a, b, n, d, 1>> is (a/b) ** (n/d) - 1, and <<a, b, n, d, 1, p, q>> is   *)
(* that value divided by p/q.                                                *)
Sqrt(x) ==
    IF IsNaN(x) THEN NaN ELSE IF x = Zero THEN Zero ELSE <<x[1], x[2], 2>>
OverSqrt(x, sq) ==
    IF IsNaN(x) \/ IsNaN(sq) THEN NaN
    ELSE IF sq = Zero THEN RDiv(x, Zero)
    ELSE <<x[1], x[2], sq[1], sq[2]>>
PowMinusOne(base, exponent) ==
    IF IsNaN(base) THEN NaN
    ELSE IF base = One THEN Zero
    ELSE IF base = Zero THEN R(-1)
    ELSE <<base[1], base[2], exponent[1], exponent[2], 1>>
Over(x, y) ==
    IF Len(x) = 2 THEN RDiv(x, y)
    ELSE IF IsNaN(y) THEN NaN
    ELSE x \o <<y[1], y[2]>>

\* lines 80-90: cagr, on an index that is not a DatetimeIndex
Cagr(total, num_days) ==
    IF RNe(total[1], Zero) /\ num_days > 0
    THEN PowMinusOne(RDiv(total[Len(total)], total[1]),
                     Rat(trading_days_per_year, num_days))
    ELSE Zero

\* ann_mean_return - self.risk_free_rate
ExcessReturn(calc, returns) ==
    RSub(RMul(SMean(returns), R(trading_days_per_year)), calc.risk_free_rate)

\* the square of ann_std_dev: returns.std() * sqrt(trading_days_per_year)
AnnVar(returns) == RMul(SVar(returns), R(trading_days_per_year))

\* mutant: the ratio is computed whatever its denominator
Sharpe_unguarded(excess, ann_var) == OverSqrt(excess, ann_var)

\* lines 97-101 and 110-114: (ann_mean_return - risk_free_rate) / ann_std_dev
\* if ann_std_dev != 0 else 0.0
Sharpe(excess, ann_var) ==
    IF Sqrt(ann_var) # Zero THEN OverSqrt(excess, ann_var) ELSE Zero

\* lines 104-109: the square of ann_downside_std, 0.0 without negative returns
DownsideVar(returns) ==
    IF Len(SelectSeq(returns, Negative)) # 0
    THEN AnnVar(SelectSeq(returns, Negative)) ELSE Zero

\* line 122: cagr / abs(max_drawdown) if max_drawdown != 0 else 0.0
Calmar(cagr, max_drawdown) ==
    IF RNe(max_drawdown, Zero) THEN Over(cagr, RAbs(max_drawdown)) ELSE Zero

\* lines 92-122 and 141: cagr, the risk-adjusted ratios and the volatility
RiskMetrics(calc, total, returns) ==
    [cagr |-> Cagr(total, Len(returns)),
     sharpe_ratio |-> Sharpe(ExcessReturn(calc, returns), AnnVar(returns)),
     sortino_ratio |-> Sharpe(ExcessReturn(calc, returns), DownsideVar(returns)),
     calmar_ratio |-> Calmar(Cagr(total, Len(returns)), MaxDrawdown(total)),
     annualized_volatility |-> Sqrt(AnnVar(returns))]

\* returns.index: the labels of the rows whose return is present
Labels(s) == SelectSeq([i \in 1..Len(s) |-> i], LAMBDA i : ~IsNaN(s[i]))

\* line 147: self.benchmark_returns.reindex(returns.index).fillna(0)
Aligned(benchmark, labels) ==
    [k \in DOMAIN labels |->
        IF labels[k] <= Len(benchmark) /\ ~IsNaN(benchmark[labels[k]])
        THEN benchmark[labels[k]] ELSE Zero]

\* line 150: beta = cov_ / bench_var if bench_var != 0 else nan
Beta(returns, aligned_bench) ==
    IF RNe(SVar(aligned_bench), Zero)
    THEN RDiv(Cov(returns, aligned_bench), SVar(aligned_bench)) ELSE NaN

\* lines 151-154
Alpha(calc, returns, aligned_bench, beta) ==
    RSub(RMul(SMean(returns), R(trading_days_per_year)),
         RAdd(calc.risk_free_rate,
              RMul(beta, RSub(RMul(SMean(aligned_bench), R(trading_days_per_year)),
                              calc.risk_free_rate))))

BenchmarkWith(calc, returns, aligned_bench) ==
    [beta |-> Beta(returns, aligned_bench),
     alpha |-> Alpha(calc, returns, aligned_bench, Beta(returns, aligned_bench))]

\* lines 143-154: beta and alpha; `column` is portfolio['returns']
BenchmarkMetrics(calc, column) ==
    IF calc.has_benchmark /\ Len(calc.benchmark_returns) # 0
    THEN BenchmarkWith(calc, DropNa(column),
                       Aligned(calc.benchmark_returns, Labels(column)))
    ELSE [beta |-> NaN, alpha |-> NaN]

\* PerformanceCalculator.calculate_metrics
calculate_metrics(calc, portfolio) ==
    IF "returns" \notin Columns(portfolio) \/ "total" \notin Columns(portfolio)
    THEN Raise(Exc("ValueError", "Portfolio missing required 'returns' or 'total' columns."))
    ELSE IF portfolio.n < 2 THEN Return(_default_metrics)
    ELSE
    Return(BenchmarkMetrics(calc, portfolio.cols["returns"])
           @@ RiskMetrics(calc, portfolio.cols["total"], DropNa(portfolio.cols["returns"]))
           @@ Metrics(portfolio.cols["total"],
                      SelectSeq(DropNa(portfolio.cols["returns"]), NonZero)).val)

(***************************************************************************)
(* run_backtest (engine/backtest.py).                                      *)
(***************************************************************************)
\* mutant: the exposure of a period is the signal of the same period
positions_same_day(signals) == AsFloat(signals)

\* positions = signals.shift(1).fillna(0)
positions(signals) == FillNa(Shift(AsFloat(signals)), Zero)

\* asset_returns = data["Adj Close"].pct_change().fillna(0)
asset_returns(data) == FillNa(PctChange(data.cols["Adj Close"], 1), Zero)

\* mutant: the gross return uses the signal before it is lagged
strategy_returns_lookahead(data, signals) == SMul(AsFloat(signals), asset_returns(data))

\* strategy_returns = positions * asset_returns
strategy_returns(data, signals) == SMul(positions(signals), asset_returns(data))

\* mutant: the first row is charged for entering its position
traded_fraction_from_flat(signals) ==
    SAbs([i \in DOMAIN signals |->
            IF i = 1 THEN R(signals[1]) ELSE Diff(AsFloat(signals))[i]])

\* traded_fraction = abs(signals.diff().fillna(0))
traded_fraction(signals) == SAbs(FillNa(Diff(AsFloat(signals)), Zero))

\* transaction_costs = (commission + slippage) * traded_fraction
transaction_costs(signals, commission, slippage) ==
    SScale(RAdd(commission, slippage), traded_fraction(signals))

\* net_returns = strategy_returns - transaction_costs
net_returns(data, signals, commission, slippage) ==
    SSub(strategy_returns(data, signals),
         transaction_costs(signals, commission, slippage))

\* mutant: the returns are not compounded
Total_no_cumprod(initial_capital, returns) == SScale(initial_capital, SPlus(One, returns))

\* portfolio["total"] = initial_capital * (1 + net_returns).cumprod()
Total(initial_capital, returns) == SScale(initial_capital, CumProd(SPlus(One, returns)))

\* the portfolio DataFrame built from the signals
PortfolioFrame(returns, total, holdings) ==
    DataFrame(Len(returns),
              [returns |-> returns, total |-> total, holdings |-> holdings,
               cash |-> SSub(total, holdings)])

\* portfolio["holdings"] = positions * portfolio["total"]
PortfolioOf(signals, returns, total) ==
    PortfolioFrame(returns, total, SMul(positions(signals), total))

PortfolioWith(signals, initial_capital, returns) ==
    PortfolioOf(signals, returns, Total(initial_capital, returns))

Portfolio(data, signals, initial_capital, commission, slippage) ==
    PortfolioWith(signals, initial_capital,
                  net_returns(data, signals, commission, slippage))

\* lines 79-80: return {"portfolio": portfolio, "metrics": metrics}
BacktestResult(portfolio, metrics) ==
    IF ~metrics.ok THEN metrics
    ELSE Return([portfolio |-> portfolio, metrics |-> metrics.val])

\* lines 74-75: the metrics of the portfolio
BacktestOf(portfolio) ==
    BacktestResult(portfolio, calculate_metrics(PerformanceCalculator(Zero), portfolio))

\* lines 58-72: the portfolio of the signals the strategy returned
BacktestFrom(data, signals, initial_capital, commission, slippage) ==
    IF ~signals.ok THEN signals
    ELSE BacktestOf(Portfolio(data, signals.val, initial_capital, commission, slippage))

\* mutant: only the column is validated
InvalidData_columns_only(data) == "Adj Close" \notin Columns(data)

\* line 51: "Adj Close" not in data.columns or len(data) < 2
InvalidData(data) == "Adj Close" \notin Columns(data) \/ data.n < 2

\* the number of strategy.generate_signals calls of one run_backtest call:
\* line 56 is reached only when line 52 did not raise
SignalCalls(data) == IF InvalidData(data) THEN 0 ELSE 1

\* the body of the try block
BacktestBody(data, strategy, initial_capital, commission, slippage) ==
    IF InvalidData(data)
    THEN Raise(Exc("EngineError", "Insufficient or invalid data for backtest"))
    ELSE BacktestFrom(data, generate_signals(strategy, data), initial_capital,
                      commission, slippage)

\* mutant: an exception of the strategy is passed on as it is
BtHandle_no_wrap(r) == r

\* except EngineError: raise / except Exception as error: raise EngineError(...) from error
BtHandle(r) ==
    IF r.ok THEN r
    ELSE IF IsInstance(r.exc, "EngineError") THEN r
    ELSE Raise(ExcFrom("EngineError", "Backtest failed", r.exc))

run_backtest(data, strategy, initial_capital, commission, slippage) ==
    BtHandle(BacktestBody(data, strategy, initial_capital, commission, slippage))

(***************************************************************************)
(* State.                                                                  *)
(***************************************************************************)
VARIABLES
    bt_args,      \* the arguments of a run_backtest call
    bt_pc,        \* "ready" before the call, "done" after it
    bt_locals,    \* the local Series of the call (None before they are bound)
    bt_return,    \* what the call returned or raised
    bt_calls,     \* number of strategy.generate_signals calls of the call
    alt_args,     \* a second call: the same arguments but for one signal
    alt_pc,
    alt_locals,
    alt_return

VARIABLES
    rp_args,        \* the arguments of a run_parallel_backtests call
    rp_pc,          \* "start", "sequential", "parallel" or "done"
    rp_strategies,  \* the strategy instances built so far
    rp_constructed, \* number of strategy constructor calls
    rp_results,     \* the results list of the sequential loop
    rp_jobs,        \* the joblib tasks: state and outcome of each
    rp_order,       \* the tasks in the order they completed
    rp_calls,       \* number of run_backtest calls for each table
    rp_outcome      \* what the call returned or raised

bt_vars == <<bt_args, bt_pc, bt_locals, bt_return, bt_calls,
             alt_args, alt_pc, alt_locals, alt_return>>
rp_vars == <<rp_args, rp_pc, rp_strategies, rp_constructed, rp_results,
             rp_jobs, rp_order, rp_calls, rp_outcome>>
VARIABLES
    opt_self,      \* the GridSearchOptimizer: its constructor arguments
    opt_pc,        \* "start", "collecting" or "done"
    opt_combos,    \* the combinations, in the order they were submitted
    opt_futures,   \* the future of each combination: state and outcome
    opt_results,   \* the results dict: (key, score) items in insertion order
    opt_outcome    \* what optimize returned or raised

opt_vars == <<opt_self, opt_pc, opt_combos, opt_futures, opt_results, opt_outcome>>
VARIABLES
    mt_benchmark,  \* the benchmark_returns argument of PerformanceCalculator
    mt_portfolio,  \* the portfolio table given to calculate_metrics
    mt_pc,         \* "ready" before the call, "done" after it
    mt_return      \* what the call returned or raised

mt_vars == <<mt_benchmark, mt_portfolio, mt_pc, mt_return>>
VARIABLES
    sg_strategy,   \* the strategy instance whose generate_signals is called
    sg_data,       \* the price table given to it
    sg_pc,         \* "ready" before the call, "done" after it
    sg_return      \* what the call returned or raised

sg_vars == <<sg_strategy, sg_data, sg_pc, sg_return>>
VARIABLES
    pm_heap,       \* the dictionaries, by identity: 1 is the class-level
                   \* default_params, 2 the dictionary of the caller
    pm_instances,  \* the strategies constructed: the identity of the dictionary
                   \* behind self.params, and the caller's values at that time
    pm_last,       \* the statement run last: "construct", "caller" or "proxy"
    pm_outcome     \* what that statement returned or raised

pm_vars == <<pm_heap, pm_instances, pm_last, pm_outcome>>
vars == <<bt_vars, rp_vars, opt_vars, mt_vars, sg_vars, pm_vars>>

\* what an operation of one component leaves alone: the other components
bt_others == <<rp_vars, opt_vars, mt_vars, sg_vars, pm_vars>>
rp_others == <<bt_vars, opt_vars, mt_vars, sg_vars, pm_vars>>
opt_others == <<bt_vars, rp_vars, mt_vars, sg_vars, pm_vars>>
mt_others == <<bt_vars, rp_vars, opt_vars, sg_vars, pm_vars>>
sg_others == <<bt_vars, rp_vars, opt_vars, mt_vars, pm_vars>>
pm_others == <<bt_vars, rp_vars, opt_vars, mt_vars, sg_vars>>

None == [ok |-> FALSE, exc |-> <<>>]

(***************************************************************************)
(* Inputs of the single-instrument simulator.                              *)
(***************************************************************************)
PriceVals == {1, 2, 4}
SignalVals == {-1, 0, 1}
CostVals == {Zero, Rat(1, 4)}
CapitalVals == {R(100)}

PriceSeries(n) == {AsFloat(p) : p \in [1..n -> PriceVals]}

\* price tables with and without the 'Adj Close' column
Tables ==
    UNION {{DataFrame(Len(p), [c \in {"Adj Close", "Close"} |-> p]),
            DataFrame(Len(p), [c \in {"Close"} |-> p])} :
           p \in UNION {PriceSeries(n) : n \in 0..MaxLen}}

Stub(signals) == [type |-> "stub", params |-> [raises |-> FALSE, signals |-> signals]]
\* the kinds of exception an implementation of generate_signals raises
StubErrors == {"ValueError", "StrategyError", "EngineError"}
RaisingStub(error) ==
    [type |-> "stub", params |-> [raises |-> TRUE, signals |-> <<>>, error |-> error]]

\* every signal Series for a table with 'Adj Close', the constant ones otherwise
StubsFor(data) ==
    {RaisingStub(error) : error \in StubErrors} \cup
    (IF "Adj Close" \in Columns(data)
     THEN {Stub(s) : s \in [1..data.n -> SignalVals]}
     ELSE {Stub([i \in 1..data.n |-> v]) : v \in SignalVals})

BtInit ==
    /\ \E data \in Tables, commission \in CostVals, slippage \in CostVals,
          initial_capital \in CapitalVals :
          \E strategy \in StubsFor(data) :
             bt_args = [data |-> data, strategy |-> strategy,
                        initial_capital |-> initial_capital,
                        commission |-> commission, slippage |-> slippage]
    /\ bt_pc = "ready"
    /\ bt_locals = None
    /\ bt_return = None
    /\ bt_calls = 0
    /\ alt_args = bt_args
    /\ alt_pc = "ready"
    /\ alt_locals = None
    /\ alt_return = None

\* a strategy that stays out of the market with no trading costs, on price
\* series that may hold a price of 0
FlatPriceVals == PriceVals \cup {0}
FlatTables ==
    {DataFrame(Len(p), [c \in {"Adj Close", "Close"} |-> p]) :
        p \in UNION {{AsFloat(q) : q \in [1..n -> FlatPriceVals]} : n \in 0..MaxLen}}

BtFlatInit ==
    /\ \E data \in FlatTables, initial_capital \in CapitalVals :
          bt_args = [data |-> data, strategy |-> Stub([i \in 1..data.n |-> 0]),
                     initial_capital |-> initial_capital,
                     commission |-> Zero, slippage |-> Zero]
    /\ bt_pc = "ready"
    /\ bt_locals = None
    /\ bt_return = None
    /\ bt_calls = 0
    /\ alt_args = bt_args
    /\ alt_pc = "ready"
    /\ alt_locals = None
    /\ alt_return = None

\* the local Series run_backtest binds once the strategy has returned its signals
BacktestLocals(data, strategy, commission, slippage) ==
    IF InvalidData(data) THEN None
    ELSE LET signals == generate_signals(strategy, data)
         IN IF ~signals.ok THEN None
            ELSE [signals |-> signals.val,
                  positions |-> positions(signals.val),
                  asset_returns |-> asset_returns(data),
                  strategy_returns |-> strategy_returns(data, signals.val),
                  transaction_costs |->
                      transaction_costs(signals.val, commission, slippage),
                  net_returns |->
                      net_returns(data, signals.val, commission, slippage)]

Locals(a) == BacktestLocals(a.data, a.strategy, a.commission, a.slippage)
Call(a) == run_backtest(a.data, a.strategy, a.initial_capital, a.commission, a.slippage)

\* run_backtest(data, strategy, initial_capital, commission, slippage)
RunBacktest ==
    /\ bt_pc = "ready"
    /\ bt_pc' = "done"
    /\ bt_locals' = Locals(bt_args)
    /\ bt_return' = Call(bt_args)
    /\ bt_calls' = bt_calls + SignalCalls(bt_args.data)
    /\ UNCHANGED bt_others
    /\ UNCHANGED <<bt_args, alt_args, alt_pc, alt_locals, alt_return>>

\* the same call with the signal of one row replaced
RunBacktestAlt ==
    /\ bt_pc = "done"
    /\ alt_pc = "ready"
    /\ ~bt_args.strategy.params.raises
    /\ \E t \in 1..bt_args.data.n, v \in SignalVals :
          /\ v # bt_args.strategy.params.signals[t]
          /\ alt_args' = [bt_args EXCEPT !.strategy.params.signals[t] = v]
          /\ alt_locals' = Locals(alt_args')
          /\ alt_return' = Call(alt_args')
    /\ alt_pc' = "done"
    /\ UNCHANGED bt_others
    /\ UNCHANGED <<bt_args, bt_pc, bt_locals, bt_return, bt_calls>>

\* no run_backtest call of its own is modelled
BtIdle ==
    /\ bt_args = None /\ bt_pc = "idle" /\ bt_locals = None /\ bt_return = None
    /\ bt_calls = 0
    /\ alt_args = None /\ alt_pc = "idle" /\ alt_locals = None /\ alt_return = None

(***************************************************************************)
(* run_parallel_backtests (engine/backtest.py).                            *)
(***************************************************************************)
\* dict.get(key, default)
Get(d, key, default) == IF key \in DOMAIN d THEN d[key] ELSE default

\* mutant: an unknown type falls back to a registered strategy
ResolveStrategy_fallback(strategy_config) == Return("momentum")

\* strategy_class = STRATEGY_REGISTRY.get(strategy_config.get("type", ""))
ResolveStrategy(strategy_config) ==
    LET strategy_type == Get(strategy_config, "type", "")
    IN IF strategy_type \in STRATEGY_REGISTRY THEN Return(strategy_type)
       ELSE Raise(ExcArg("EngineError", "Invalid strategy type", strategy_type))

\* mutant: every exception is wrapped
RpHandle_always_wrap(exc) == ExcFrom("EngineError", "Parallel backtests failed", exc)

\* except EngineError: raise / except Exception as error: raise EngineError(...) from error
RpHandle(exc) ==
    IF IsInstance(exc, "EngineError") THEN exc
    ELSE ExcFrom("EngineError", "Parallel backtests failed", exc)

\* mutant: the results are gathered in the order the tasks completed
GatherResults_completion_order(jobs, order) ==
    [k \in DOMAIN jobs |-> jobs[order[k]].out.val]

\* joblib.Parallel returns the results of the tasks in the order they were given
GatherResults(jobs, order) == [i \in DOMAIN jobs |-> jobs[i].out.val]

\* mutant: every task reads the table the previous one was given
Simulate_previous_table(a, strategy, i) ==
    run_backtest(a.datas[IF i = 1 THEN 1 ELSE i - 1], strategy,
                 a.backtest_config["initial_capital"],
                 a.backtest_config["commission"], a.backtest_config["slippage"])

\* run_backtest(data, strategy, initial_capital, commission, slippage) for table i
Simulate(a, strategy, i) ==
    run_backtest(a.datas[i], strategy, a.backtest_config["initial_capital"],
                 a.backtest_config["commission"], a.backtest_config["slippage"])

NoJob == [state |-> "pending", out |-> None]

\* lines 117-130: resolve the type, build one strategy per table, read the flag
RpStart ==
    /\ rp_pc = "start"
    /\ LET n == Len(rp_args.datas)
           cls == ResolveStrategy(rp_args.strategy_config)
           strategy_params == Get(rp_args.strategy_config, "params", <<>>)
           made == IF cls.ok THEN NewStrategy(cls.val, strategy_params) ELSE cls
       IN IF ~cls.ok
          THEN /\ rp_outcome' = Raise(RpHandle(cls.exc))
               /\ rp_pc' = "done"
               /\ UNCHANGED <<rp_strategies, rp_constructed>>
          ELSE IF n > 0 /\ ~made.ok
          THEN /\ rp_outcome' = Raise(RpHandle(made.exc))
               /\ rp_pc' = "done"
               /\ rp_constructed' = 1
               /\ UNCHANGED rp_strategies
          ELSE /\ rp_strategies' = [i \in 1..n |-> made.val]
               /\ rp_constructed' = n
               /\ IF "parallel" \notin DOMAIN rp_args.backtest_config
                  THEN /\ rp_outcome' = Raise(RpHandle(ExcArg("KeyError", "", "parallel")))
                       /\ rp_pc' = "done"
                  ELSE /\ rp_pc' = IF rp_args.backtest_config["parallel"]
                                   THEN "parallel" ELSE "sequential"
                       /\ UNCHANGED rp_outcome
    /\ UNCHANGED rp_others
    /\ UNCHANGED <<rp_args, rp_results, rp_jobs, rp_order, rp_calls>>

\* mutant: a failed simulation is recorded and the loop goes on
RpSeqAppend_continue(out) ==
    /\ rp_results' = Append(rp_results, out)
    /\ UNCHANGED <<rp_pc, rp_outcome>>

\* lines 146-153: the result of run_backtest is appended, or its exception
\* leaves the loop
RpSeqAppend(out) ==
    IF out.ok
    THEN /\ rp_results' = Append(rp_results, out.val)
         /\ UNCHANGED <<rp_pc, rp_outcome>>
    ELSE /\ rp_outcome' = Raise(RpHandle(out.exc))
         /\ rp_pc' = "done"
         /\ UNCHANGED rp_results

\* one iteration of the sequential loop (lines 145-154)
RpSeqStep ==
    /\ rp_pc = "sequential"
    /\ Len(rp_results) < Len(rp_args.datas)
    /\ LET i == Len(rp_results) + 1
       IN /\ rp_calls' = [rp_calls EXCEPT ![i] = @ + 1]
          /\ RpSeqAppend(Simulate(rp_args, rp_strategies[i], i))
    /\ UNCHANGED rp_others
    /\ UNCHANGED <<rp_args, rp_strategies, rp_constructed, rp_jobs, rp_order>>

\* the loop is over: return results (line 157)
RpSeqReturn ==
    /\ rp_pc = "sequential"
    /\ Len(rp_results) = Len(rp_args.datas)
    /\ rp_outcome' = Return(rp_results)
    /\ rp_pc' = "done"
    /\ UNCHANGED rp_others
    /\ UNCHANGED <<rp_args, rp_strategies, rp_constructed, rp_results, rp_jobs,
                   rp_order, rp_calls>>

\* a variant that submits the task of a table again after it failed
RpTaskStart_retry(i) ==
    /\ rp_pc = "parallel"
    /\ \/ rp_jobs[i].state = "pending"
       \/ rp_jobs[i].state = "done" /\ ~rp_jobs[i].out.ok /\ rp_calls[i] < 2
    /\ rp_jobs' = [rp_jobs EXCEPT ![i].state = "running"]
    /\ rp_calls' = [rp_calls EXCEPT ![i] = @ + 1]
    /\ UNCHANGED rp_others
    /\ UNCHANGED <<rp_args, rp_pc, rp_strategies, rp_constructed, rp_results,
                   rp_order, rp_outcome>>

\* a joblib worker starts the task of table i
RpTaskStart(i) ==
    /\ rp_pc = "parallel"
    /\ rp_jobs[i].state = "pending"
    /\ rp_jobs' = [rp_jobs EXCEPT ![i].state = "running"]
    /\ rp_calls' = [rp_calls EXCEPT ![i] = @ + 1]
    /\ UNCHANGED rp_others
    /\ UNCHANGED <<rp_args, rp_pc, rp_strategies, rp_constructed, rp_results,
                   rp_order, rp_outcome>>

\* the task of table i completes: run_backtest returned or raised
RpTaskFinish(i) ==
    /\ rp_pc = "parallel"
    /\ rp_jobs[i].state = "running"
    /\ rp_jobs' = [rp_jobs EXCEPT ![i] =
                      [state |-> "done", out |-> Simulate(rp_args, rp_strategies[i], i)]]
    /\ rp_order' = Append(rp_order, i)
    /\ UNCHANGED rp_others
    /\ UNCHANGED <<rp_args, rp_pc, rp_strategies, rp_constructed, rp_results,
                   rp_calls, rp_outcome>>

\* every task returned: Parallel(...) returns the list of results (lines 133-157)
RpParallelReturn ==
    /\ rp_pc = "parallel"
    /\ \A i \in DOMAIN rp_jobs : rp_jobs[i].state = "done" /\ rp_jobs[i].out.ok
    /\ rp_outcome' = Return(GatherResults(rp_jobs, rp_order))
    /\ rp_pc' = "done"
    /\ UNCHANGED rp_others
    /\ UNCHANGED <<rp_args, rp_strategies, rp_constructed, rp_results, rp_jobs,
                   rp_order, rp_calls>>

\* a task raised: Parallel(...) raises its exception in the caller (lines 158-163)
RpParallelRaise(i) ==
    /\ rp_pc = "parallel"
    /\ rp_jobs[i].state = "done"
    /\ ~rp_jobs[i].out.ok
    /\ rp_outcome' = Raise(RpHandle(rp_jobs[i].out.exc))
    /\ rp_pc' = "done"
    /\ UNCHANGED rp_others
    /\ UNCHANGED <<rp_args, rp_strategies, rp_constructed, rp_results, rp_jobs,
                   rp_order, rp_calls>>

(***************************************************************************)
(* Inputs of the multi-instrument runner.                                  *)
(***************************************************************************)
\* most tables in one call
MaxTables == 3

TUp == DataFrame(3, [c \in {"Adj Close", "Close"} |-> AsFloat(<<1, 2, 4>>)])
TDown == DataFrame(3, [c \in {"Adj Close", "Close"} |-> AsFloat(<<4, 2, 1>>)])
TShort == DataFrame(1, [c \in {"Adj Close", "Close"} |-> AsFloat(<<2>>)])
TAdjOnly == DataFrame(3, [c \in {"Adj Close"} |-> AsFloat(<<1, 2, 1>>)])
RunnerTables == {TUp, TDown, TShort, TAdjOnly}

TableLists == UNION {[1..n -> RunnerTables] : n \in 0..MaxTables}

ParamsOk == [lookback |-> 1]
ParamsBad == [lookback |-> 0]
ParamsOpen == [lookback |-> 1, price_column |-> "Open"]

StrategyConfigs ==
    {[type |-> "momentum", params |-> p] : p \in {ParamsOk, ParamsBad, ParamsOpen}}
    \cup {[type |-> "invalid", params |-> ParamsOk], [params |-> ParamsOk]}

BacktestConfigs ==
    {[k \in {"initial_capital", "commission", "slippage", "parallel"} |->
        CASE k = "initial_capital" -> R(100)
          [] k = "commission" -> Rat(1, 4)
          [] k = "slippage" -> Zero
          [] OTHER -> par] : par \in BOOLEAN}
    \cup {NoCols}

RpInitWith(datas, strategy_config, backtest_config) ==
    /\ rp_args = [datas |-> datas, strategy_config |-> strategy_config,
                  backtest_config |-> backtest_config]
    /\ rp_pc = "start"
    /\ rp_strategies = <<>>
    /\ rp_constructed = 0
    /\ rp_results = <<>>
    /\ rp_jobs = [i \in DOMAIN datas |-> NoJob]
    /\ rp_order = <<>>
    /\ rp_calls = [i \in DOMAIN datas |-> 0]
    /\ rp_outcome = None

RpInit ==
    \E datas \in TableLists, strategy_config \in StrategyConfigs,
       backtest_config \in BacktestConfigs :
        RpInitWith(datas, strategy_config, backtest_config)

\* no run_parallel_backtests call of its own is modelled
RpIdle ==
    /\ rp_args = None /\ rp_pc = "idle" /\ rp_strategies = <<>>
    /\ rp_constructed = 0 /\ rp_results = <<>> /\ rp_jobs = <<>>
    /\ rp_order = <<>> /\ rp_calls = <<>> /\ rp_outcome = None

RpNext ==
    \/ RpStart
    \/ RpSeqStep
    \/ RpSeqReturn
    \/ \E i \in DOMAIN rp_jobs : RpTaskStart(i)
    \/ \E i \in DOMAIN rp_jobs : RpTaskFinish(i)
    \/ RpParallelReturn
    \/ \E i \in DOMAIN rp_jobs : RpParallelRaise(i)

(***************************************************************************)
(* What a run_parallel_backtests call can return or raise, as a function   *)
(* of its arguments (the outcomes of the state machine above).             *)
(***************************************************************************)
\* lines 132-163: the list of results, or the exception of a failed table
\* (of the first one in the sequential loop, of any one under joblib)
RunOutcomesOf(parallel, out, failed) ==
    IF failed = {} THEN {Return([i \in DOMAIN out |-> out[i].val])}
    ELSE IF parallel THEN {Raise(RpHandle(out[i].exc)) : i \in failed}
    ELSE {Raise(RpHandle(out[CHOOSE i \in failed : \A j \in failed : i <= j].exc))}

RunOutcomes(parallel, out) ==
    RunOutcomesOf(parallel, out, {i \in DOMAIN out : ~out[i].ok})

\* lines 123-130: one strategy per table, then the flag is read
RunWith(a, made) ==
    IF Len(a.datas) > 0 /\ ~made.ok THEN {Raise(RpHandle(made.exc))}
    ELSE IF "parallel" \notin DOMAIN a.backtest_config
    THEN {Raise(RpHandle(ExcArg("KeyError", "", "parallel")))}
    ELSE RunOutcomes(a.backtest_config["parallel"],
                     [i \in DOMAIN a.datas |-> Simulate(a, made.val, i)])

RunParallelOutcomes(datas, strategy_config, backtest_config) ==
    LET cls == ResolveStrategy(strategy_config)
    IN IF ~cls.ok THEN {Raise(RpHandle(cls.exc))}
       ELSE RunWith([datas |-> datas, strategy_config |-> strategy_config,
                     backtest_config |-> backtest_config],
                    NewStrategy(cls.val, Get(strategy_config, "params", <<>>)))

(***************************************************************************)
(* GridSearchOptimizer (optimization/grid_search.py).  A string that may   *)
(* carry the '-' prefix is the sequence of its parts: <<"-", "name">> is   *)
(* "-name" and <<"name">> is "name".                                       *)
(***************************************************************************)
\* self._grid_size(): the product of the lengths of the value lists
RECURSIVE _grid_size(_)
_grid_size(param_grid) ==
    IF Len(param_grid) = 0 THEN 1
    ELSE Len(Head(param_grid)[2]) * _grid_size(Tail(param_grid))

\* mutant: only the first value of every list is combined
RECURSIVE _generate_combinations_first_values(_)
_generate_combinations_first_values(param_grid) ==
    IF Len(param_grid) = 0 THEN <<NoCols>>
    ELSE LET name == Head(param_grid)[1]
             values == IF Len(Head(param_grid)[2]) = 0 THEN <<>>
                       ELSE <<Head(param_grid)[2][1]>>
             rest == _generate_combinations_first_values(Tail(param_grid))
         IN [k \in 1..(Len(values) * Len(rest)) |->
               (name :> values[((k - 1) \div Len(rest)) + 1])
                  @@ rest[((k - 1) % Len(rest)) + 1]]

\* self._generate_combinations(): itertools.product over the value lists, the
\* last parameter varying fastest; param_grid is the list of its (name, values)
RECURSIVE _generate_combinations(_)
_generate_combinations(param_grid) ==
    IF Len(param_grid) = 0 THEN <<NoCols>>
    ELSE LET name == Head(param_grid)[1]
             values == Head(param_grid)[2]
             rest == _generate_combinations(Tail(param_grid))
         IN [k \in 1..(Len(values) * Len(rest)) |->
               (name :> values[((k - 1) \div Len(rest)) + 1])
                  @@ rest[((k - 1) % Len(rest)) + 1]]

\* numpy.mean of a list: NaN for an empty list, NaN and infinities propagate
NpMean(xs) ==
    LET f[i \in 0..Len(xs)] == IF i = 0 THEN Zero ELSE RAdd(f[i - 1], xs[i])
    IN IF Len(xs) = 0 THEN NaN ELSE RDiv(f[Len(xs)], R(Len(xs)))

\* m[self.objective_metric]: the whole string is the key
HasMetric(m, objective_metric) ==
    Len(objective_metric) = 1 /\ objective_metric[1] \in DOMAIN m

\* self.objective_metric.startswith("-")
StartsWithMinus(objective_metric) == objective_metric[1] = "-"

\* the exceptions _evaluate_params catches
EvaluateCatches == {"KeyError", "TypeError", "ValueError", "RuntimeError"}

\* GridSearchOptimizer._evaluate_params: the outcomes of evaluating params
Negated(objective_metric, avg_metric) ==
    IF StartsWithMinus(objective_metric) THEN Return(RNeg(avg_metric))
    ELSE Return(avg_metric)

\* lines 160-169: the average of the objective over metrics_list; the lookup
\* of a key the metrics map lacks raises KeyError, which line 171 catches
Score(objective_metric, metrics_list) ==
    IF Len(metrics_list) > 0 /\ ~HasMetric(metrics_list[1], objective_metric)
    THEN Return(NegInf)
    ELSE Negated(objective_metric,
                 NpMean([i \in DOMAIN metrics_list |->
                           metrics_list[i][objective_metric[1]]]))

\* lines 138-173 once run_parallel_backtests has returned or raised r
Evaluated(self, r) ==
    IF r.ok
    THEN Score(self.objective_metric,
               [i \in DOMAIN r.val |->
                  calculate_metrics(PerformanceCalculator(self.risk_free_rate),
                                    r.val[i].portfolio).val])
    ELSE IF \E c \in EvaluateCatches : IsInstance(r.exc, c) THEN Return(NegInf)
    ELSE r

_evaluate_params(self, params) ==
    {Evaluated(self, r) :
        r \in RunParallelOutcomes(self.data,
                                  [type |-> self.strategy_type, params |-> params],
                                  self.backtest_config)}

\* results[tuple(params.items())] = score: a dict keeps the place of a key it has
SetItem(results, key, score) ==
    IF \E i \in DOMAIN results : results[i].key = key
    THEN [i \in DOMAIN results |->
            IF results[i].key = key THEN [key |-> key, score |-> score] ELSE results[i]]
    ELSE Append(results, [key |-> key, score |-> score])

\* the exceptions the loop over as_completed catches and logs
CollectCatches == {"TimeoutError", "CancelledError", "ValueError", "RuntimeError", "TypeError"}

\* mutant: a future that raised is recorded with the score -inf
Collect_penalise(results, params, out) ==
    IF out.ok THEN Return(SetItem(results, params, out.val))
    ELSE Return(SetItem(results, params, NegInf))

\* the body of the loop over as_completed (lines 194-205): the results after
\* the future of params has been read, or the exception that leaves the loop
Collect(results, params, out) ==
    IF out.ok THEN Return(SetItem(results, params, out.val))
    ELSE IF \E c \in CollectCatches : IsInstance(out.exc, c) THEN Return(results)
    ELSE Raise(out.exc)

\* mutant: the comparison is reversed, the smallest score wins
MaxByScore_min(results) ==
    LET f[i \in 1..Len(results)] ==
            IF i = 1 THEN 1
            ELSE IF RLt(results[i].score, results[f[i - 1]].score) THEN i
            ELSE f[i - 1]
    IN results[f[Len(results)]]

\* max(results, key=lambda x: results[x]): the first item no later one exceeds
MaxByScore(results) ==
    LET f[i \in 1..Len(results)] ==
            IF i = 1 THEN 1
            ELSE IF RGt(results[i].score, results[f[i - 1]].score) THEN i
            ELSE f[i - 1]
    IN results[f[Len(results)]]

NewFuture == [state |-> "pending", out |-> None]

\* lines 181-191: the combinations are generated and all submitted
OptSubmit ==
    /\ opt_pc = "start"
    /\ opt_combos' = _generate_combinations(opt_self.param_grid)
    /\ opt_futures' = [k \in DOMAIN opt_combos' |-> NewFuture]
    /\ opt_pc' = "collecting"
    /\ UNCHANGED opt_others
    /\ UNCHANGED <<opt_self, opt_results, opt_outcome>>

\* a pool thread runs _evaluate_params for combination k to its end
OptTaskRun(k) ==
    /\ opt_pc = "collecting"
    /\ opt_futures[k].state = "pending"
    /\ \E out \in _evaluate_params(opt_self, opt_combos[k]) :
          opt_futures' = [opt_futures EXCEPT ![k] = [state |-> "finished", out |-> out]]
    /\ UNCHANGED opt_others
    /\ UNCHANGED <<opt_self, opt_pc, opt_combos, opt_results, opt_outcome>>

\* the task of combination k ends in a timeout
OptTaskTimeout(k) ==
    /\ opt_pc = "collecting"
    /\ opt_futures[k].state = "pending"
    /\ opt_futures' = [opt_futures EXCEPT ![k] =
                          [state |-> "finished", out |-> Raise(Exc("TimeoutError", ""))]]
    /\ UNCHANGED opt_others
    /\ UNCHANGED <<opt_self, opt_pc, opt_combos, opt_results, opt_outcome>>

\* the future of combination k is cancelled before it runs
OptTaskCancel(k) ==
    /\ opt_pc = "collecting"
    /\ opt_futures[k].state = "pending"
    /\ opt_futures' = [opt_futures EXCEPT ![k] =
                          [state |-> "finished", out |-> Raise(Exc("CancelledError", ""))]]
    /\ UNCHANGED opt_others
    /\ UNCHANGED <<opt_self, opt_pc, opt_combos, opt_results, opt_outcome>>

\* as_completed yields the finished future of combination k (lines 193-205)
OptCollect(k) ==
    /\ opt_pc = "collecting"
    /\ opt_futures[k].state = "finished"
    /\ opt_futures' = [opt_futures EXCEPT ![k].state = "read"]
    /\ LET c == Collect(opt_results, opt_combos[k], opt_futures[k].out)
       IN IF c.ok
          THEN /\ opt_results' = c.val
               /\ UNCHANGED <<opt_pc, opt_outcome>>
          ELSE /\ opt_outcome' = c
               /\ opt_pc' = "done"
               /\ UNCHANGED opt_results
    /\ UNCHANGED opt_others
    /\ UNCHANGED <<opt_self, opt_combos>>

\* every future has been read: the best item is selected (lines 207-216)
OptSelect ==
    /\ opt_pc = "collecting"
    /\ \A k \in DOMAIN opt_futures : opt_futures[k].state = "read"
    /\ opt_outcome' =
          IF Len(opt_results) = 0
          THEN Raise(Exc("ValueError", "No valid parameter combinations evaluated."))
          ELSE LET best == MaxByScore(opt_results)
               IN Return([best_params |-> best.key, best_score |-> best.score])
    /\ opt_pc' = "done"
    /\ UNCHANGED opt_others
    /\ UNCHANGED <<opt_self, opt_combos, opt_futures, opt_results>>

(***************************************************************************)
(* Inputs of the parameter sweep.                                          *)
(***************************************************************************)
ParamGrids ==
    {<< <<"lookback", <<1, 2>> >>, <<"buy_threshold", <<Rat(1, 20), Rat(3, 2)>> >> >>,
     << <<"lookback", <<0, 1, 2>> >> >>,
     << <<"lookback", <<1, 1>> >>, <<"buy_threshold", <<Rat(3, 2)>> >> >>,
     << <<"lookback", <<>> >> >>}

ObjectiveMetrics ==
    {<<"total_return">>, <<"profit_factor">>, <<"max_drawdown">>,
     <<"-", "max_drawdown">>}

SweepData == {<<>>, <<TUp>>, <<TDown, TUp>>, <<TUp, TAdjOnly>>}

OptInit ==
    /\ \E param_grid \in ParamGrids, objective_metric \in ObjectiveMetrics,
          data \in SweepData, backtest_config \in BacktestConfigs :
          opt_self = [strategy_type |-> "momentum", param_grid |-> param_grid,
                      objective_metric |-> objective_metric, data |-> data,
                      backtest_config |-> backtest_config, risk_free_rate |-> Zero]
    /\ opt_pc = "start"
    /\ opt_combos = <<>>
    /\ opt_futures = <<>>
    /\ opt_results = <<>>
    /\ opt_outcome = None

\* no sweep of its own is modelled
OptIdle ==
    /\ opt_self = None /\ opt_pc = "idle" /\ opt_combos = <<>>
    /\ opt_futures = <<>> /\ opt_results = <<>> /\ opt_outcome = None

OptNext ==
    \/ OptSubmit
    \/ \E k \in DOMAIN opt_futures : OptTaskRun(k)
    \/ \E k \in DOMAIN opt_futures : OptTaskTimeout(k)
    \/ \E k \in DOMAIN opt_futures : OptTaskCancel(k)
    \/ \E k \in DOMAIN opt_futures : OptCollect(k)
    \/ OptSelect

(***************************************************************************)
(* calculate_metrics called on its own, on portfolio tables of every shape.*)
(***************************************************************************)
ReturnVals == {Rat(-1, 2), Zero, Rat(1, 2), NaN}
EquityVals == {R(-100), Zero, R(100), R(200)}

\* portfolio tables with both required columns, with one of them, with neither
MetricTables ==
    UNION {{DataFrame(n, [returns |-> r, total |-> t]) :
               r \in [1..n -> ReturnVals], t \in [1..n -> EquityVals]}
           \cup {DataFrame(n, [returns |-> r]) : r \in [1..n -> ReturnVals]}
           \cup {DataFrame(n, [total |-> t]) : t \in [1..n -> EquityVals]}
           \cup {DataFrame(n, [invalid |-> [i \in 1..n |-> One]])} :
           n \in 0..MaxLen}

MtInit ==
    /\ mt_benchmark = NoSeries
    /\ mt_portfolio \in MetricTables
    /\ mt_pc = "ready"
    /\ mt_return = None

\* calculate_metrics of the calculator, unless its construction raised
MetricsOf(calc, portfolio) ==
    IF calc.ok THEN calculate_metrics(calc.val, portfolio) ELSE calc

\* PerformanceCalculator(benchmark_returns=...).calculate_metrics(portfolio)
CalculateMetrics ==
    /\ mt_pc = "ready"
    /\ mt_return' = MetricsOf(PerformanceCalculatorWith(Zero, mt_benchmark), mt_portfolio)
    /\ mt_pc' = "done"
    /\ UNCHANGED <<mt_benchmark, mt_portfolio>>
    /\ UNCHANGED mt_others

\* no calculate_metrics call of its own is modelled
MtIdle ==
    mt_benchmark = NoSeries /\ mt_portfolio = None /\ mt_pc = "idle" /\ mt_return = None

\* benchmark series: empty, shorter than the portfolio, constant, varying
Benchmarks ==
    {NoSeries, Given(<<>>), Given(<<Rat(1, 2)>>), Given(<<Rat(1, 2), Rat(1, 2), Zero>>),
     Given(<<Rat(1, 2), Rat(-1, 2), NaN>>)}

\* portfolios with both columns and an equity that stays at 100
BenchmarkTables ==
    UNION {{DataFrame(n, [returns |-> r, total |-> [i \in 1..n |-> R(100)]]) :
               r \in [1..n -> ReturnVals]} : n \in 0..MaxLen}

MtBenchmarkInit ==
    /\ mt_benchmark \in Benchmarks
    /\ mt_portfolio \in BenchmarkTables
    /\ mt_pc = "ready"
    /\ mt_return = None

MtNext == CalculateMetrics

(***************************************************************************)
(* Inputs of generate_signals: the strategies of the registry whose signal *)
(* code is in the package, on tables with and without the columns they     *)
(* read.                                                                   *)
(***************************************************************************)
\* (short_window, long_window) pairs accepted by _validate_params
WindowVals == {<<1, 2>>, <<2, 3>>, <<1, 5>>}
\* lookback and period values accepted by _validate_params
PeriodVals == {1, 5}

MovingAverageStrategy(short_window, long_window) ==
    [type |-> "moving_average",
     params |-> [short_window |-> short_window, long_window |-> long_window,
                 price_column |-> "Adj Close"]]

RSIStrategy(period, indicator) ==
    [type |-> "rsi",
     params |-> [period |-> period, overbought |-> R(70), oversold |-> R(30),
                 price_column |-> "Adj Close"],
     indicator |-> indicator]

StochasticStrategy(fastk_period, indicator) ==
    [type |-> "stochastic",
     params |-> [fastk_period |-> fastk_period, slowk_period |-> 3, slowd_period |-> 3,
                 overbought |-> R(80), oversold |-> R(20), price_column |-> "Adj Close"],
     indicator |-> indicator]

\* the column sets of the price tables
ColumnSets ==
    {{"Adj Close", "Close", "High", "Low"}, {"Close", "High", "Low"},
     {"Adj Close"}, {"Close"}, {"Open"}, {"High", "Low"}}

SignalTables ==
    {DataFrame(Len(p), [c \in cs |-> p]) :
        p \in UNION {PriceSeries(n) : n \in 0..MaxLen}, cs \in ColumnSets}

\* the signals a TA-Lib indicator may lead to on a table
IndicatorsFor(data) == {[i \in 1..data.n |-> v] : v \in SignalVals}

StrategiesFor(data) ==
    {MovingAverageStrategy(w[1], w[2]) : w \in WindowVals}
    \cup {NewStrategy("momentum", [lookback |-> l]).val : l \in PeriodVals}
    \cup {RSIStrategy(period, s) : period \in PeriodVals, s \in IndicatorsFor(data)}
    \cup {StochasticStrategy(k, s) : k \in PeriodVals, s \in IndicatorsFor(data)}

SgInit ==
    /\ sg_data \in SignalTables
    /\ sg_strategy \in StrategiesFor(sg_data)
    /\ sg_pc = "ready"
    /\ sg_return = None

\* strategy.generate_signals(data)
GenerateSignals ==
    /\ sg_pc = "ready"
    /\ sg_return' = generate_signals(sg_strategy, sg_data)
    /\ sg_pc' = "done"
    /\ UNCHANGED <<sg_strategy, sg_data>>
    /\ UNCHANGED sg_others

\* no generate_signals call of its own is modelled
SgIdle == sg_strategy = None /\ sg_data = None /\ sg_pc = "idle" /\ sg_return = None

SgNext == GenerateSignals

(***************************************************************************)
(* Strategy parameters (BaseStrategy.__init__).  Dictionaries are objects: *)
(* pm_heap holds their contents by identity, so that two names for one     *)
(* dictionary see each other's writes.                                     *)
(***************************************************************************)
MaxInstances == 2
ClassDefaults == 1
CallerParams == 2

\* mutant: the dictionary itself, not a copy of it
DictCopy_alias(heap, ref) == [heap |-> heap, ref |-> ref]

\* dict.copy(): a new dictionary with the same items
DictCopy(heap, ref) == [heap |-> Append(heap, heap[ref]), ref |-> Len(heap) + 1]

\* dict.update(other) and d[key] = value
DictUpdate(heap, ref, other) == [heap EXCEPT ![ref] = other @@ heap[ref]]
DictSetItem(heap, ref, key, value) == DictUpdate(heap, ref, key :> value)

\* lines 55-58: validation, then self.params = MappingProxyType(effective_params)
BaseInitChecked(heap, ref, valid) ==
    IF valid.ok THEN [heap |-> heap, out |-> Return([params |-> ref])]
    ELSE [heap |-> heap, out |-> valid]
BaseInitMerged(heap, ref) == BaseInitChecked(heap, ref, MomentumValidate(heap[ref]))

\* lines 52-54: effective_params = self.default_params.copy();
\* effective_params.update(params)
BaseInitFrom(copy, params) ==
    BaseInitMerged(DictUpdate(copy.heap, copy.ref, params), copy.ref)

\* BaseStrategy.__init__ as run by MomentumStrategy(params)
BaseInit(heap, params_ref) ==
    BaseInitFrom(DictCopy(heap, ClassDefaults), heap[params_ref])

\* the dictionaries a caller passes, and what it writes into them later
CallerDicts ==
    {NoCols, [lookback |-> 1], [lookback |-> 0],
     [lookback |-> 2, buy_threshold |-> Rat(3, 2)]}
CallerWrites ==
    {<<"lookback", 0>>, <<"lookback", 1>>, <<"lookback", 2>>,
     <<"buy_threshold", Rat(3, 2)>>}

PmInit ==
    /\ \E params \in CallerDicts : pm_heap = <<MomentumDefaults, params>>
    /\ pm_instances = <<>>
    /\ pm_last = "none"
    /\ pm_outcome = None

PmBuilt(made) ==
    /\ pm_heap' = made.heap
    /\ pm_outcome' = made.out
    /\ pm_instances' =
          IF made.out.ok
          THEN Append(pm_instances, [params |-> made.out.val.params,
                                     given |-> pm_heap[CallerParams]])
          ELSE pm_instances

\* strategy_class(strategy_params), as in line 124 of backtest.py
PmConstruct ==
    /\ Len(pm_heap) < CallerParams + MaxInstances
    /\ PmBuilt(BaseInit(pm_heap, CallerParams))
    /\ pm_last' = "construct"
    /\ UNCHANGED pm_others

\* the caller changes its dictionary: strategy_params[key] = value
PmCallerWrites(key, value) ==
    /\ pm_heap' = DictSetItem(pm_heap, CallerParams, key, value)
    /\ pm_outcome' = Return(TRUE)
    /\ pm_last' = "caller"
    /\ UNCHANGED pm_instances
    /\ UNCHANGED pm_others

\* strategy.params[key] = value: a mappingproxy has no item assignment
PmProxyWrites(i, key, value) ==
    /\ i \in DOMAIN pm_instances
    /\ pm_outcome' =
          Raise(Exc("TypeError", "'mappingproxy' object does not support item assignment"))
    /\ pm_last' = "proxy"
    /\ UNCHANGED <<pm_heap, pm_instances>>
    /\ UNCHANGED pm_others

\* no strategy construction of its own is modelled
PmIdle ==
    pm_heap = <<>> /\ pm_instances = <<>> /\ pm_last = "none" /\ pm_outcome = None

PmNext ==
    \/ PmConstruct
    \/ \E w \in CallerWrites : PmCallerWrites(w[1], w[2])
    \/ \E i \in 1..MaxInstances, w \in CallerWrites : PmProxyWrites(i, w[1], w[2])

BtNext == RunBacktest \/ RunBacktestAlt

BtSpecInit == BtInit /\ RpIdle /\ OptIdle /\ MtIdle /\ SgIdle /\ PmIdle
SpecBT == BtSpecInit /\ [][BtNext]_vars

RpSpecInit == RpInit /\ BtIdle /\ OptIdle /\ MtIdle /\ SgIdle /\ PmIdle
SpecRunner == RpSpecInit /\ [][RpNext]_vars

OptSpecInit == OptInit /\ BtIdle /\ RpIdle /\ MtIdle /\ SgIdle /\ PmIdle
MtSpecInit == MtInit /\ BtIdle /\ RpIdle /\ OptIdle /\ SgIdle /\ PmIdle
SpecOpt == OptSpecInit /\ [][OptNext]_vars

SpecMetrics == MtSpecInit /\ [][MtNext]_vars

BenchmarkSpecInit == MtBenchmarkInit /\ BtIdle /\ RpIdle /\ OptIdle /\ SgIdle /\ PmIdle
SpecBenchmark == BenchmarkSpecInit /\ [][MtNext]_vars

SgSpecInit == SgInit /\ BtIdle /\ RpIdle /\ OptIdle /\ MtIdle /\ PmIdle
SpecStrategy == SgSpecInit /\ [][SgNext]_vars

PmSpecInit == PmInit /\ BtIdle /\ RpIdle /\ OptIdle /\ MtIdle /\ SgIdle
SpecParams == PmSpecInit /\ [][PmNext]_vars

FlatSpecInit == BtFlatInit /\ RpIdle /\ OptIdle /\ MtIdle /\ SgIdle /\ PmIdle
SpecFlat == FlatSpecInit /\ [][BtNext]_vars

(***************************************************************************)
(* Properties of run_backtest.                                             *)
(***************************************************************************)
BtDone == bt_pc = "done" /\ bt_return.ok
AltDone == BtDone /\ alt_pc = "done" /\ alt_return.ok
Price(a, t) == a.data.cols["Adj Close"][t]
Rows(a) == 1..a.data.n
\* the row whose signal the second call replaces
ChangedRow == CHOOSE t \in Rows(bt_args) :
                 alt_args.strategy.params.signals[t] # bt_args.strategy.params.signals[t]
CostRate(a) == RAdd(a.commission, a.slippage)

\* C1: the exposure of period t is the signal of period t-1 and 0 in the first
\* period: gross return[t] = signal[t-1] * (P[t]/P[t-1] - 1) and
\* holdings[t] = signal[t-1] * equity[t] for t > 0; both are 0 in period 0.
C1_LaggedExposure ==
    BtDone =>
        LET s == bt_args.strategy.params.signals
            pf == bt_return.val.portfolio.cols
        IN /\ bt_locals.strategy_returns[1] = Zero
           /\ pf["holdings"][1] = Zero
           /\ \A t \in Rows(bt_args) \ {1} :
                 /\ bt_locals.strategy_returns[t] =
                       RMul(R(s[t - 1]),
                            RSub(RDiv(Price(bt_args, t), Price(bt_args, t - 1)), One))
                 /\ pf["holdings"][t] = RMul(R(s[t - 1]), pf["total"][t])

\* a run with a non-zero first signal, a later non-zero exposure and a price move
C1_Witness ==
    /\ BtDone
    /\ bt_args.data.n = MaxLen
    /\ bt_args.strategy.params.signals[1] # 0
    /\ \E t \in Rows(bt_args) \ {1} :
          /\ bt_locals.strategy_returns[t] # Zero
          /\ bt_return.val.portfolio.cols["holdings"][t] # Zero
          /\ bt_args.strategy.params.signals[t] # bt_args.strategy.params.signals[t - 1]

\* C2 as stated: two runs whose signals differ only in row t have the same
\* period_return in every row k <= t, for any commission and slippage.
C2_NoChangeUpToT ==
    AltDone =>
        \A k \in Rows(bt_args) :
            k <= ChangedRow =>
                alt_return.val.portfolio.cols["returns"][k] =
                    bt_return.val.portfolio.cols["returns"][k]

\* C2 amended: period_return[k] is the same for every k < t, and for k = t when
\* commission + slippage = 0 or t is the first row; otherwise period_return[t]
\* changes by exactly the change of the transaction cost
\* (commission + slippage) * |signal[t] - signal[t-1]|, the gross return of
\* every row k <= t being the same.
C2_NoChangeBeforeT ==
    AltDone =>
        LET t == ChangedRow
            r1 == bt_return.val.portfolio.cols["returns"]
            r2 == alt_return.val.portfolio.cols["returns"]
            s1 == bt_args.strategy.params.signals
            s2 == alt_args.strategy.params.signals
        IN /\ \A k \in Rows(bt_args) : k < t => r2[k] = r1[k]
           /\ \A k \in Rows(bt_args) :
                 k <= t => alt_locals.strategy_returns[k] = bt_locals.strategy_returns[k]
           /\ (t = 1 \/ CostRate(bt_args) = Zero) => r2[t] = r1[t]
           /\ t > 1 =>
                 RSub(r1[t], r2[t]) =
                    RMul(CostRate(bt_args),
                         R(Abs(s2[t] - s2[t - 1]) - Abs(s1[t] - s1[t - 1])))

\* two runs that differ in a middle row, with a cost rate > 0, a price move in
\* that row and a changed return in the row after it
C2_Witness ==
    /\ AltDone
    /\ ChangedRow > 1
    /\ ChangedRow < bt_args.data.n
    /\ CostRate(bt_args) # Zero
    /\ bt_locals.strategy_returns[ChangedRow] # Zero
    /\ alt_return.val.portfolio.cols["returns"][ChangedRow + 1] #
          bt_return.val.portfolio.cols["returns"][ChangedRow + 1]

\* C3: equity[t] = equity[t-1] * (1 + period_return[t]) for t > 0, and
\* equity[0] = initial_capital because period_return[0] = 0.
C3_EquityRecursion ==
    BtDone =>
        LET pf == bt_return.val.portfolio.cols
        IN /\ pf["returns"][1] = Zero
           /\ pf["total"][1] = bt_args.initial_capital
           /\ \A t \in Rows(bt_args) \ {1} :
                 pf["total"][t] = RMul(pf["total"][t - 1], RAdd(One, pf["returns"][t]))

\* a run that trades in the first row under a cost rate > 0 and whose equity
\* moves in two different rows
C3_Witness ==
    /\ BtDone
    /\ CostRate(bt_args) # Zero
    /\ bt_args.strategy.params.signals[1] # 0
    /\ \E t, u \in Rows(bt_args) :
          /\ t < u
          /\ bt_return.val.portfolio.cols["returns"][t] # Zero
          /\ bt_return.val.portfolio.cols["returns"][u] # Zero
          /\ bt_return.val.portfolio.cols["total"][u] # bt_args.initial_capital

\* the call is over, with a result or an exception
BtOver == bt_pc = "done"
InsufficientData == Exc("EngineError", "Insufficient or invalid data for backtest")

\* C11: when the table lacks 'Adj Close' or has fewer than 2 rows, run_backtest
\* raises EngineError("Insufficient or invalid data for backtest"), the strategy
\* has not been called and no signal, return or portfolio has been computed.
C11_InvalidDataRejectedFirst ==
    (BtOver /\ ("Adj Close" \notin Columns(bt_args.data) \/ bt_args.data.n < 2)) =>
        /\ ~bt_return.ok
        /\ bt_return.exc = InsufficientData
        /\ bt_calls = 0
        /\ bt_locals = None

\* a table with the column and one row, given to a strategy that would have
\* returned a signal, was rejected
C11_Witness ==
    /\ BtOver
    /\ "Adj Close" \in Columns(bt_args.data)
    /\ bt_args.data.n = 1
    /\ ~bt_args.strategy.params.raises
    /\ bt_return.exc = InsufficientData
    /\ bt_calls = 0

\* C12: a failed run_backtest raises an EngineError.  The validation failure
\* is raised as it is (no cause); an exception of another kind raised by the
\* strategy is the cause of a new EngineError("Backtest failed"); an
\* EngineError raised by the strategy is raised as it is.
C12_FailuresAreEngineErrors ==
    (BtOver /\ ~bt_return.ok) =>
        /\ bt_return.exc[1].type = "EngineError"
        /\ ("Adj Close" \notin Columns(bt_args.data) \/ bt_args.data.n < 2) =>
              bt_return.exc = InsufficientData
        /\ (bt_calls = 1 /\ bt_args.strategy.params.raises) =>
              LET original == Exc(bt_args.strategy.params.error, "signal generation failed")
              IN IF bt_args.strategy.params.error = "EngineError"
                 THEN bt_return.exc = original
                 ELSE /\ Len(bt_return.exc) = 2
                      /\ bt_return.exc[1].msg = "Backtest failed"
                      /\ Tail(bt_return.exc) = original

\* a StrategyError of the strategy reached the caller wrapped in an EngineError
C12_Witness ==
    /\ BtOver
    /\ bt_calls = 1
    /\ bt_args.strategy.params.raises
    /\ bt_args.strategy.params.error = "StrategyError"
    /\ bt_return.exc[1].type = "EngineError"
    /\ bt_return.exc[2].type = "StrategyError"

BtMetrics == bt_return.val.metrics
BtPortfolio == bt_return.val.portfolio

\* C16: with commission = slippage = 0 and a signal of 0 on every row,
\* period_return[t] = 0, holdings[t] = 0 and equity[t] = cash[t] =
\* initial_capital on every row, whatever the prices.
C16_FlatKeepsCapital ==
    (/\ BtDone
     /\ CostRate(bt_args) = Zero
     /\ \A t \in Rows(bt_args) : bt_args.strategy.params.signals[t] = 0) =>
        \A t \in Rows(bt_args) :
            /\ BtPortfolio.cols["returns"][t] = Zero
            /\ BtPortfolio.cols["holdings"][t] = Zero
            /\ BtPortfolio.cols["total"][t] = bt_args.initial_capital
            /\ BtPortfolio.cols["cash"][t] = bt_args.initial_capital

(***************************************************************************)
(* Properties of the metrics of a simulated portfolio.                     *)
(***************************************************************************)
\* C13: the max_drawdown of the portfolio run_backtest returns lies in [-1, 0].
C13_DrawdownInUnitRange ==
    BtDone =>
        /\ IsFinite(BtMetrics.max_drawdown)
        /\ ~RLt(BtMetrics.max_drawdown, R(-1))
        /\ ~RGt(BtMetrics.max_drawdown, Zero)

(***************************************************************************)
(* Properties of calculate_metrics.                                        *)
(***************************************************************************)
MtDone == mt_pc = "done"
HasRequiredColumns == {"returns", "total"} \subseteq Columns(mt_portfolio)
MetricNames ==
    {"total_return", "cagr", "sharpe_ratio", "sortino_ratio", "max_drawdown",
     "calmar_ratio", "annualized_volatility", "beta", "alpha", "num_trades",
     "win_rate", "avg_return_per_trade", "profit_factor"}
IsDefaultMap(m) ==
    /\ DOMAIN m = MetricNames
    /\ \A k \in MetricNames :
          m[k] = IF k \in {"beta", "alpha", "profit_factor"} THEN NaN ELSE Zero

IsTrade(x) == ~IsNaN(x) /\ x # Zero
Trades == SelectSeq(mt_portfolio.cols["returns"], IsTrade)
\* the sum of the trades of one sign (1: gains, -1: losses)
TradeSum(sign) ==
    LET f[i \in 0..Len(Trades)] ==
            IF i = 0 THEN Zero
            ELSE IF Sign(Trades[i][1]) = sign THEN RAdd(f[i - 1], Trades[i])
            ELSE f[i - 1]
    IN f[Len(Trades)]
TradeMetricsAsStated(m) ==
    IF Len(Trades) = 0
    THEN /\ m.num_trades = Zero
         /\ m.win_rate = Zero
         /\ m.avg_return_per_trade = Zero
         /\ m.profit_factor = NaN
    ELSE IF TradeSum(-1) = Zero THEN m.profit_factor = PosInf
    ELSE m.profit_factor = RDiv(TradeSum(1), RAbs(TradeSum(-1)))

\* C15 as stated: the trade metrics of every table calculate_metrics accepts
\* follow from its trades.
C15_TradeMetrics ==
    (MtDone /\ HasRequiredColumns) =>
        (mt_return.ok /\ TradeMetricsAsStated(mt_return.val))

\* C15: on a table with at least 2 rows, with the trades being the period
\* returns that are present and not 0: without trades num_trades, win_rate and
\* avg_return_per_trade are 0 and profit_factor is NaN; with trades and no
\* loss profit_factor is +inf; otherwise it is gains / |losses|.  A table
\* with fewer than 2 rows gets the defaults (profit_factor NaN) even when
\* its row is a trade.
C15_TradeMetricsFromTwoRows ==
    (MtDone /\ HasRequiredColumns) =>
        /\ mt_return.ok
        /\ mt_portfolio.n >= 2 => TradeMetricsAsStated(mt_return.val)
        /\ mt_portfolio.n < 2 => mt_return.val.profit_factor = NaN

\* a table of three rows, one of them missing, whose trades are all gains
C15_Witness ==
    /\ MtDone
    /\ HasRequiredColumns
    /\ mt_portfolio.n = 3
    /\ \E i \in 1..3 : IsNaN(mt_portfolio.cols["returns"][i])
    /\ Len(Trades) = 2
    /\ TradeSum(-1) = Zero
    /\ mt_return.ok
    /\ mt_return.val.profit_factor = PosInf
    /\ mt_return.val.num_trades = R(2)

\* C19: on a table without the 'returns' or the 'total' column
\* calculate_metrics raises a MetricsError, whatever the number of rows.
C19_MissingColumnsRaiseMetricsError ==
    (MtDone /\ ~HasRequiredColumns) =>
        (~mt_return.ok /\ IsInstance(mt_return.exc, "MetricsError"))

(***************************************************************************)
(* Properties of run_parallel_backtests.                                   *)
(***************************************************************************)
RpDone == rp_pc = "done"
NumTables == Len(rp_args.datas)
UnknownType == Get(rp_args.strategy_config, "type", "") \notin STRATEGY_REGISTRY
TotalCalls == Cardinality({i \in DOMAIN rp_calls : rp_calls[i] > 0})
\* the simulations of this call that have raised
FailedRuns ==
    {rp_jobs[i].out.exc : i \in {j \in DOMAIN rp_jobs :
                                    rp_jobs[j].state = "done" /\ ~rp_jobs[j].out.ok}}
\* what simulating table i alone gives, with the strategy the runner builds
Alone(i) ==
    Simulate(rp_args,
             NewStrategy(rp_args.strategy_config.type,
                         Get(rp_args.strategy_config, "params", <<>>)).val, i)

\* C4: with a type that is not registered (or none) the call raises an
\* EngineError naming the type; no strategy is constructed and run_backtest is
\* never called.
C4_UnknownTypeFailsFirst ==
    (rp_pc # "idle" /\ UnknownType) =>
        /\ rp_constructed = 0
        /\ \A i \in DOMAIN rp_calls : rp_calls[i] = 0
        /\ rp_pc \in {"start", "done"}
        /\ RpDone =>
              rp_outcome = Raise(ExcArg("EngineError", "Invalid strategy type",
                                        Get(rp_args.strategy_config, "type", "")))

\* a finished call with an unregistered type and tables it could have simulated
C4_Witness ==
    /\ RpDone
    /\ UnknownType
    /\ "type" \in DOMAIN rp_args.strategy_config
    /\ NumTables = MaxTables
    /\ \A i \in DOMAIN rp_args.datas : rp_args.datas[i] \in {TUp, TDown}

\* C5: a call in which every simulation succeeds returns one result per table,
\* element i being the result of simulating datas[i], in sequential and in
\* parallel mode and for every completion order of the workers.
C5_ResultsInInputOrder ==
    (RpDone /\ rp_outcome.ok) =>
        /\ Len(rp_outcome.val) = NumTables
        /\ \A i \in DOMAIN rp_args.datas :
              Alone(i).ok /\ rp_outcome.val[i] = Alone(i).val

\* a parallel call that returned although the last table completed first and
\* the tables have different results
C5_Witness ==
    /\ RpDone
    /\ rp_outcome.ok
    /\ rp_args.backtest_config["parallel"]
    /\ NumTables >= 2
    /\ rp_order[1] = NumTables
    /\ rp_outcome.val[1] # rp_outcome.val[NumTables]

\* C6: when the simulation of a table fails the call returns no list: it
\* raises one EngineError, and an EngineError raised by run_backtest reaches
\* the caller as that same error, not wrapped again.
C6_FailureAbortsBatch ==
    RpDone =>
        /\ (\E i \in DOMAIN rp_args.datas :
               rp_calls[i] > 0 /\ ~Alone(i).ok) => ~rp_outcome.ok
        /\ (~rp_outcome.ok => IsInstance(rp_outcome.exc, "EngineError"))
        /\ (~rp_outcome.ok /\ TotalCalls > 0) =>
              \E i \in DOMAIN rp_args.datas :
                  /\ rp_calls[i] > 0
                  /\ ~Alone(i).ok
                  /\ rp_outcome.exc = Alone(i).exc

\* a parallel call that raised the error of a failed simulation after another
\* table had been simulated successfully
C6_Witness ==
    /\ RpDone
    /\ ~rp_outcome.ok
    /\ Len(rp_order) >= 2
    /\ rp_outcome.exc \in FailedRuns
    /\ \E i \in DOMAIN rp_jobs : rp_jobs[i].state = "done" /\ rp_jobs[i].out.ok

(***************************************************************************)
(* Properties of GridSearchOptimizer.optimize.                             *)
(***************************************************************************)
OptDone == opt_pc = "done"
Futures == DOMAIN opt_futures
WasRead(k) == opt_futures[k].state = "read"
Interrupted(k) ==
    /\ opt_futures[k].state # "pending"
    /\ ~opt_futures[k].out.ok
    /\ opt_futures[k].out.exc[1].type \in {"TimeoutError", "CancelledError"}
\* what run_parallel_backtests gives for combination k
RunsOf(k) ==
    RunParallelOutcomes(opt_self.data,
                        [type |-> opt_self.strategy_type, params |-> opt_combos[k]],
                        opt_self.backtest_config)
\* the evaluation of combination k raised inside run_parallel_backtests
RunFailed(k) ==
    /\ opt_futures[k].state # "pending"
    /\ ~Interrupted(k)
    /\ \A r \in RunsOf(k) : ~r.ok
HasScore(params, score) ==
    \E i \in DOMAIN opt_results :
        opt_results[i].key = params /\ opt_results[i].score = score
\* the average over the instruments of metric m for combination k
AverageOf(k, m) ==
    LET r == CHOOSE r \in RunsOf(k) : r.ok
    IN NpMean([i \in DOMAIN r.val |-> r.val[i].metrics[m]])

\* C7: a combination whose evaluation raises, of whatever kind, is recorded
\* with the score -inf, and optimize does not raise because of it.
C7_FailedEvaluationPenalised ==
    \A k \in Futures :
        (WasRead(k) /\ RunFailed(k)) =>
            /\ HasScore(opt_combos[k], NegInf)
            /\ ~(OptDone /\ ~opt_outcome.ok /\ opt_outcome = opt_futures[k].out)

\* C8: with the objective '-' + m, m a metric, the score of a combination is
\* the negation of the average of m over the instruments.
C8_NegatedObjective ==
    \A k \in Futures :
        (/\ opt_futures[k].state # "pending"
         /\ opt_futures[k].out.ok
         /\ StartsWithMinus(opt_self.objective_metric)
         /\ opt_self.objective_metric[2] \in DOMAIN _default_metrics) =>
            opt_futures[k].out.val = RNeg(AverageOf(k, opt_self.objective_metric[2]))

C10_BestIsMaximal ==
    (OptDone /\ opt_outcome.ok) =>
        LET best == opt_outcome.val
        IN /\ \E k \in Futures :
                 /\ opt_combos[k] = best.best_params
                 /\ WasRead(k)
                 /\ opt_futures[k].out.ok
                 /\ opt_futures[k].out.val = best.best_score
                 /\ HasMetric(_default_metrics, opt_self.objective_metric) =>
                       best.best_score = AverageOf(k, opt_self.objective_metric[1])
           /\ HasScore(best.best_params, best.best_score)
           /\ \A i \in DOMAIN opt_results : ~RGt(opt_results[i].score, best.best_score)

\* a sweep that returned a finite best score with a NaN, an infinite and a
\* smaller finite score among its results
C10_Witness ==
    /\ OptDone
    /\ opt_outcome.ok
    /\ IsFinite(opt_outcome.val.best_score)
    /\ \E i \in DOMAIN opt_results : IsNaN(opt_results[i].score)
    /\ \E i \in DOMAIN opt_results :
          IsFinite(opt_results[i].score)
          /\ RLt(opt_results[i].score, opt_outcome.val.best_score)

\* the outcome of the runner's state machine is one RunParallelOutcomes gives
RunnerSummary ==
    RpDone =>
        rp_outcome \in RunParallelOutcomes(rp_args.datas, rp_args.strategy_config,
                                           rp_args.backtest_config)

(***************************************************************************)
(* Properties of generate_signals.                                         *)
(***************************************************************************)
SgDone == sg_pc = "done"
\* the rows the strategy's lookback needs before a signal is possible
RowsNeeded(strategy) ==
    IF strategy.type = "moving_average" THEN strategy.params.long_window
    ELSE IF strategy.type = "momentum" THEN strategy.params.lookback + 1
    ELSE IF strategy.type = "rsi" THEN strategy.params.period + 1
    ELSE Max3(strategy.params.fastk_period, strategy.params.slowk_period,
              strategy.params.slowd_period) + 1
\* the columns the strategy reads are there
HasSignalColumns(strategy, data) ==
    /\ strategy.params.price_column \in Columns(data) \/ "Close" \in Columns(data)
    /\ strategy.type = "stochastic" => {"High", "Low"} \subseteq Columns(data)

\* C17: generate_signals raises a StrategyError when the table lacks the price
\* column the strategy requires, for instance a moving-average strategy on a
\* table that has 'Close' but no 'Adj Close'.
C17_MissingPriceColumnRaisesStrategyError ==
    (SgDone /\ sg_strategy.params.price_column \notin Columns(sg_data))
        => (~sg_return.ok /\ IsInstance(sg_return.exc, "StrategyError"))

\* C18: on a table that has the required columns and fewer rows than the
\* lookback needs, generate_signals does not raise and returns a series over
\* the table's index whose values are all 0.
C18_FewRowsGiveNeutralSignals ==
    (/\ SgDone
     /\ HasSignalColumns(sg_strategy, sg_data)
     /\ sg_data.n < RowsNeeded(sg_strategy))
        => (sg_return.ok /\ sg_return.val = [i \in 1..sg_data.n |-> 0])

(***************************************************************************)
(* Properties of run_parallel_backtests: how often a table is simulated.   *)
(***************************************************************************)
RpSucceeded == rp_pc = "done" /\ rp_outcome.ok

\* C20: in one call of run_parallel_backtests each table is simulated at most
\* once, so a simulation that failed is never run again; when the call
\* succeeds every table was simulated exactly once and there are as many
\* results as tables.
C20_EachTableSimulatedOnce ==
    /\ \A i \in DOMAIN rp_calls : rp_calls[i] <= 1
    /\ RpSucceeded =>
          /\ \A i \in DOMAIN rp_args.datas : rp_calls[i] = 1
          /\ Len(rp_outcome.val) = Len(rp_args.datas)

\* a call on two tables or more that succeeded, under joblib
C20_Witness ==
    /\ RpSucceeded
    /\ Len(rp_args.datas) >= 2
    /\ rp_args.backtest_config["parallel"]
    /\ \A i \in DOMAIN rp_args.datas : rp_calls[i] = 1

(***************************************************************************)
(* Properties of calculate_metrics with a benchmark.                       *)
(***************************************************************************)
BenchmarkGiven == mt_benchmark.given /\ Len(mt_benchmark.series) # 0
PresentReturns == DropNa(mt_portfolio.cols["returns"])
AlignedBenchmark == Aligned(mt_benchmark.series, Labels(mt_portfolio.cols["returns"]))

\* C21: with a non-empty benchmark series configured, calculate_metrics on a
\* portfolio of at least 2 rows succeeds and returns beta = cov(returns,
\* aligned benchmark) / var(aligned benchmark), NaN when that variance is 0;
\* without a benchmark beta and alpha are NaN.
C21_BenchmarkBeta ==
    (MtDone /\ HasRequiredColumns /\ mt_portfolio.n >= 2) =>
        /\ BenchmarkGiven =>
              /\ mt_return.ok
              /\ mt_return.val.beta =
                    (IF SVar(AlignedBenchmark) = Zero THEN NaN
                     ELSE RDiv(Cov(PresentReturns, AlignedBenchmark),
                               SVar(AlignedBenchmark)))
        /\ ~mt_benchmark.given =>
              mt_return.ok /\ IsNaN(mt_return.val.beta) /\ IsNaN(mt_return.val.alpha)

(***************************************************************************)
(* Properties of the risk-adjusted ratios.                                 *)
(***************************************************************************)
MtComputed == MtDone /\ HasRequiredColumns /\ mt_portfolio.n >= 2
DownsideReturns == SelectSeq(PresentReturns, Negative)

\* C23: calculate_metrics returns 0 for each risk-adjusted ratio whose
\* denominator is degenerate: sharpe_ratio when the standard deviation of the
\* returns is 0, sortino_ratio when the downside deviation is 0 or no return
\* is negative, calmar_ratio when max_drawdown is 0.
C23_DegenerateRatiosAreZero ==
    MtComputed =>
        /\ mt_return.ok
        /\ SVar(PresentReturns) = Zero => mt_return.val.sharpe_ratio = Zero
        /\ (Len(DownsideReturns) = 0 \/ SVar(DownsideReturns) = Zero)
              => mt_return.val.sortino_ratio = Zero
        /\ mt_return.val.max_drawdown = Zero => mt_return.val.calmar_ratio = Zero

\* constant non-zero returns on a growing equity: every denominator is 0
C23_Witness ==
    /\ MtComputed
    /\ PresentReturns = <<Rat(1, 2), Rat(1, 2)>>
    /\ mt_portfolio.cols["total"][1] = R(100)
    /\ mt_portfolio.cols["total"][mt_portfolio.n] = R(200)
    /\ mt_return.val.max_drawdown = Zero
    /\ mt_return.val.sharpe_ratio = Zero
    /\ mt_return.val.sortino_ratio = Zero
    /\ mt_return.val.calmar_ratio = Zero
    /\ mt_return.val.cagr # Zero

(***************************************************************************)
(* Properties of run_backtest: the period return.                          *)
(***************************************************************************)
\* C22: period_return[t] = signal[t-1] * asset_return[t]
\*      - (commission + slippage) * |signal[t] - signal[t-1]| for every t > 0,
\* and the transaction cost of row 0 is 0 whatever signal[0] is.
C22_PeriodReturn ==
    BtDone =>
        LET sig == bt_args.strategy.params.signals
            pf == bt_return.val.portfolio.cols
        IN /\ bt_locals.transaction_costs[1] = Zero
           /\ \A t \in Rows(bt_args) \ {1} :
                 pf["returns"][t] =
                    RSub(RMul(R(sig[t - 1]),
                              RSub(RDiv(Price(bt_args, t), Price(bt_args, t - 1)), One)),
                         RMul(CostRate(bt_args), R(Abs(sig[t] - sig[t - 1]))))

\* a run with costs that enters a position on the first bar and trades later
C22_Witness ==
    /\ BtDone
    /\ CostRate(bt_args) # Zero
    /\ bt_args.strategy.params.signals[1] # 0
    /\ bt_locals.transaction_costs[1] = Zero
    /\ \E t \in Rows(bt_args) \ {1} :
          /\ bt_locals.transaction_costs[t] # Zero
          /\ bt_locals.strategy_returns[t] # Zero

(***************************************************************************)
(* Properties of the parameter sweep: the combinations.                    *)
(***************************************************************************)
OptSubmitted == opt_pc \in {"collecting", "done"}
Grid == opt_self.param_grid
GridNames == {Grid[i][1] : i \in DOMAIN Grid}
LongestList ==
    CHOOSE n \in 0..MaxLen :
        /\ \A i \in DOMAIN Grid : Len(Grid[i][2]) <= n
        /\ \E i \in DOMAIN Grid : Len(Grid[i][2]) = n
\* one position in every value list
Picks == {idx \in [DOMAIN Grid -> 1..LongestList] :
             \A i \in DOMAIN Grid : idx[i] <= Len(Grid[i][2])}
\* the assignment a pick stands for
Assignment(idx) ==
    [n \in GridNames |->
        LET i == CHOOSE j \in DOMAIN Grid : Grid[j][1] = n IN Grid[i][2][idx[i]]]
Submissions(a) == Cardinality({k \in DOMAIN opt_futures : opt_combos[k] = a})

\* C24 as stated: the submitted combinations are the Cartesian product of the
\* value lists, each assignment of one listed value to every name is submitted
\* exactly once, and their number is the product of the list lengths.
C24_EachAssignmentOnce ==
    OptSubmitted =>
        /\ Len(opt_combos) = _grid_size(Grid)
        /\ DOMAIN opt_futures = DOMAIN opt_combos
        /\ \A k \in DOMAIN opt_combos : \E idx \in Picks : opt_combos[k] = Assignment(idx)
        /\ \A idx \in Picks : Submissions(Assignment(idx)) = 1

\* C24: one combination is submitted for every choice of one position in every
\* value list, so their number is the product of the list lengths; an
\* assignment is submitted once for each choice of positions that yields it,
\* hence exactly once when no list holds a value twice.
C24_EachPickOnce ==
    OptSubmitted =>
        /\ Len(opt_combos) = _grid_size(Grid)
        /\ DOMAIN opt_futures = DOMAIN opt_combos
        /\ \A k \in DOMAIN opt_combos : \E idx \in Picks : opt_combos[k] = Assignment(idx)
        /\ \A idx \in Picks :
              Submissions(Assignment(idx)) =
                  Cardinality({other \in Picks : Assignment(other) = Assignment(idx)})

\* a sweep over two parameters with two values each, all four submitted
C24_Witness ==
    /\ OptSubmitted
    /\ Len(Grid) = 2
    /\ Cardinality(Picks) = 4
    /\ Len(opt_combos) = 4
    /\ \A idx \in Picks : Submissions(Assignment(idx)) = 1

(***************************************************************************)
(* Properties of the strategy parameters.                                  *)
(***************************************************************************)
\* C25: a strategy's params are the class defaults overridden by the caller's
\* values at construction and stay so: construction changes neither the
\* class-level default_params nor the caller's dictionary, later changes of
\* the caller's dictionary do not reach strategy.params, item assignment on
\* strategy.params is rejected, and no two instances share their params.
C25_ParamsFixedAtConstruction ==
    /\ [](/\ pm_heap # <<>> => pm_heap[ClassDefaults] = MomentumDefaults
          /\ \A i \in DOMAIN pm_instances :
                /\ pm_heap[pm_instances[i].params] =
                      pm_instances[i].given @@ MomentumDefaults
                /\ pm_instances[i].params \notin {ClassDefaults, CallerParams}
                /\ \A j \in DOMAIN pm_instances :
                      j # i => pm_instances[j].params # pm_instances[i].params
          /\ pm_last = "proxy" =>
                (~pm_outcome.ok /\ pm_outcome.exc[1].type = "TypeError"))
    /\ [][pm_last' = "construct" => pm_heap'[CallerParams] = pm_heap[CallerParams]]_vars

\* two instances built from one dictionary that the caller changed in between
\* and afterwards
C25_Witness ==
    /\ Len(pm_instances) = 2
    /\ pm_instances[1].given # pm_instances[2].given
    /\ pm_heap[CallerParams] # pm_instances[2].given
    /\ pm_heap[pm_instances[1].params].lookback # pm_heap[pm_instances[2].params].lookback
    /\ pm_last = "proxy"

(***************************************************************************)
(* Properties of run_parallel_backtests: independence of the simulations.  *)
(***************************************************************************)
\* run_backtest on table i alone, with a strategy built from the same config
OnItsOwn(i) ==
    run_backtest(rp_args.datas[i],
                 NewStrategy(rp_args.strategy_config.type,
                             Get(rp_args.strategy_config, "params", <<>>)).val,
                 rp_args.backtest_config["initial_capital"],
                 rp_args.backtest_config["commission"],
                 rp_args.backtest_config["slippage"])

InSubmissionOrder ==
    LET f[k \in 0..Len(opt_combos)] ==
            IF k = 0 THEN <<>>
            ELSE Collect(f[k - 1], opt_combos[k], opt_futures[k].out).val
    IN f[Len(opt_combos)]
\* one recorded score is strictly greater than every other one
OneMaximum ==
    \E i \in DOMAIN opt_results :
        \A j \in DOMAIN opt_results \ {i} : RGt(opt_results[i].score, opt_results[j].score)

\* C27: the best_score optimize returns is the same for every order in which
\* the evaluations complete (here: the same as when they complete in the
\* order of submission), and so is best_params when exactly one combination
\* attains the maximum score.
C27_BestIndependentOfOrder ==
    (OptDone /\ opt_outcome.ok) =>
        /\ opt_outcome.val.best_score = MaxByScore(InSubmissionOrder).score
        /\ OneMaximum => opt_outcome.val.best_params = MaxByScore(InSubmissionOrder).key

(***************************************************************************)
(* Properties of the parameter sweep: the selection.                       *)
(***************************************************************************)
\* the combinations whose evaluation returned a value
Scored == {opt_combos[k] : k \in {j \in Futures : opt_futures[j].out.ok}}
\* every submitted evaluation has finished and the results hold exactly one
\* score for each distinct combination that returned one
AllCollected ==
    /\ \A k \in Futures : WasRead(k)
    /\ {opt_results[i].key : i \in DOMAIN opt_results} = Scored
    /\ \A i, j \in DOMAIN opt_results : opt_results[i].key = opt_results[j].key => i = j
    /\ \A i \in DOMAIN opt_results :
          \E k \in Futures : /\ opt_combos[k] = opt_results[i].key
                              /\ opt_futures[k].out = Return(opt_results[i].score)

\* C28: optimize selects the best combination only after every submitted
\* evaluation has finished, the results then holding exactly one score for
\* each distinct combination whose evaluation returned a value; when no
\* combination has a recorded score optimize raises ValueError.
C28_SelectionAfterAllFinished ==
    OptDone =>
        /\ opt_outcome.ok => AllCollected
        /\ Len(opt_results) = 0 =>
              (~opt_outcome.ok /\ opt_outcome.exc[1].type = "ValueError")

(***************************************************************************)
(* Properties of run_parallel_backtests: construction and the sequential   *)
(* loop.                                                                   *)
(***************************************************************************)
\* the parameters the strategy is constructed from
EffectiveParams == Get(rp_args.strategy_config, "params", <<>>) @@ MomentumDefaults
\* parameters MomentumStrategy._validate_params rejects
RejectedParams ==
    \/ EffectiveParams.lookback <= 0
    \/ ~RLt(EffectiveParams.sell_threshold, EffectiveParams.buy_threshold)
\* the call failed with an EngineError whose cause is a validation error
FailedOnValidation ==
    /\ ~rp_outcome.ok
    /\ Len(rp_outcome.exc) = 2
    /\ rp_outcome.exc[1].type = "EngineError"
    /\ rp_outcome.exc[2].type = "ValueError"
    /\ rp_outcome.exc[2].msg = "Lookback period must be positive."
\* every strategy instance exists before a simulation is started
ConstructedFirst ==
    (\E i \in DOMAIN rp_calls : rp_calls[i] > 0) =>
        /\ rp_constructed = NumTables
        /\ Len(rp_strategies) = NumTables

\* C29 as stated: the strategies (one per table) are all constructed before
\* the first simulation starts, and rejected parameters make every call fail
\* with an EngineError wrapping the validation error, run_backtest not called.
C29_RejectedParamsFailEveryCall ==
    /\ ConstructedFirst
    /\ (RpDone /\ ~UnknownType /\ RejectedParams) =>
          (FailedOnValidation /\ TotalCalls = 0)

\* C29: the strategies (one per table) are all constructed before the first
\* simulation starts; with at least one table, rejected parameters make the
\* call fail with an EngineError wrapping the validation error while
\* run_backtest has not been called, and with no table nothing is
\* constructed and the parameters are not validated.
C29_RejectedParamsFailBeforeSimulation ==
    /\ ConstructedFirst
    /\ (rp_pc # "start" /\ ~UnknownType /\ RejectedParams /\ NumTables > 0) =>
          (RpDone /\ FailedOnValidation /\ TotalCalls = 0)
    /\ (RpDone /\ ~UnknownType /\ RejectedParams /\ NumTables = 0) =>
          (~FailedOnValidation /\ rp_constructed = 0)

\* a call with the largest number of tables that failed on its parameters
C29_Witness ==
    /\ RpDone
    /\ ~UnknownType
    /\ RejectedParams
    /\ NumTables = MaxTables
    /\ FailedOnValidation
    /\ rp_constructed = 1
    /\ TotalCalls = 0

\* the call runs the sequential loop
Sequential ==
    /\ "parallel" \in DOMAIN rp_args.backtest_config
    /\ ~rp_args.backtest_config["parallel"]
    /\ Len(rp_strategies) = NumTables
    /\ ~UnknownType
\* the tables run_backtest has been called for
Called == {i \in DOMAIN rp_calls : rp_calls[i] > 0}

\* C30: in sequential mode the tables are simulated in input order and the
\* loop stops at the first failure: a table is simulated at most once and only
\* after every table before it was simulated successfully, and when the call
\* fails on table i run_backtest was called once for each table up to i and
\* for no table after i.
C30_SequentialStopsAtFirstFailure ==
    (rp_pc \in {"sequential", "done"} /\ Sequential) =>
        /\ \A i \in Called :
              /\ rp_calls[i] = 1
              /\ \A j \in 1..(i - 1) : j \in Called /\ Alone(j).ok
        /\ (RpDone /\ ~rp_outcome.ok) =>
              \E i \in DOMAIN rp_calls :
                  /\ Called = 1..i
                  /\ ~Alone(i).ok
                  /\ rp_outcome.exc = RpHandle(Alone(i).exc)
        /\ (RpDone /\ rp_outcome.ok) => Called = DOMAIN rp_calls

\* a sequential call that failed on its second table of three
C30_Witness ==
    /\ RpDone
    /\ Sequential
    /\ NumTables = 3
    /\ ~rp_outcome.ok
    /\ rp_calls = <<1, 1, 0>>
    /\ ~Alone(3).ok


====
